---- MODULE Spec2Model ----
(***************************************************************************)
(* Model of the gsky tile indexer (processor/tile_indexer.go).             *)
(*                                                                         *)
(* Optional (pointer) values are sequences: <<>> is nil, <<v>> is &v.      *)
(* Axis values and timestamps are integers (seconds / whole parameters),   *)
(* so the 1e-06 tolerances of the source coincide with exact comparison.   *)
(* A namespace string "<ds>#axis=value,..." is the pair                    *)
(* <<ds, <<<<axis, value>>, ...>>>>: formatting is injective on integers.  *)
(***************************************************************************)
EXTENDS Integers, Sequences, FiniteSets, TLC

EmptyTileNS == "EmptyTile"

Nil == <<>>
Some(v) == <<v>>
IsNil(p) == p = <<>>
Deref(p) == p[1]

Abs(x) == IF x < 0 THEN -x ELSE x
Max2(a, b) == IF a > b THEN a ELSE b
Min2(a, b) == IF a < b THEN a ELSE b

Range(s) == {s[i] : i \in 1..Len(s)}

RECURSIVE SeqSum(_)
SeqSum(s) == IF s = <<>> THEN 0 ELSE s[1] + SeqSum(Tail(s))

RECURSIVE SeqMin(_)
SeqMin(s) == IF Len(s) = 1 THEN s[1] ELSE Min2(s[1], SeqMin(Tail(s)))

RECURSIVE SeqMax(_)
SeqMax(s) == IF Len(s) = 1 THEN s[1] ELSE Max2(s[1], SeqMax(Tail(s)))

(***************************************************************************)
(* sort.Slice(x, func(i, j) { return x[i].Val <= x[j].Val }) on a short    *)
(* slice: insertion sort, an element moves left while less(it, left) holds.*)
(* Elements are records with a Val field.                                  *)
(***************************************************************************)
RECURSIVE InsertBack(_, _)
InsertBack(s, x) ==
    IF s = <<>> THEN <<x>>
    ELSE IF x.Val <= s[Len(s)].Val
         THEN Append(InsertBack(SubSeq(s, 1, Len(s) - 1), x), s[Len(s)])
         ELSE Append(s, x)

RECURSIVE SortSliceFrom(_, _)
SortSliceFrom(done, rest) ==
    IF rest = <<>> THEN done
    ELSE SortSliceFrom(InsertBack(done, rest[1]), Tail(rest))

SortSlice(s) == SortSliceFrom(<<>>, s)

SortIntsBody(s) ==
    LET r == SortSlice([i \in 1..Len(s) |-> [Val |-> s[i]]])
    IN  [i \in 1..Len(s) |-> r[i].Val]

SortInts(s0) ==
    CHOOSE out \in { SortIntsBody(s) :
                    s \in {s0} } : TRUE

\* result of a selection function: (outRange, err) plus the axis fields it
\* wrote; panic marks a run-time fault (index out of range, nil dereference)
SelRes(outRange, err, idx, vals) ==
    [outRange |-> outRange, err |-> err, panic |-> FALSE, idx |-> idx, vals |-> vals]

SelPanic(idx, vals) ==
    [outRange |-> FALSE, err |-> "", panic |-> TRUE, idx |-> idx, vals |-> vals]

(***************************************************************************)
(* doSelectionByIndices                                                    *)
(***************************************************************************)
\* for idx := i; idx <= e; idx += step : the indices visited that are not in
\* idxLookup (the loop body never adds to idxLookup)
RECURSIVE RangeLoopIdx(_, _, _, _)
RangeLoopIdx(i, e, step, lookup) ==
    IF i > e THEN <<>>
    ELSE (IF i \in lookup THEN <<>> ELSE <<i>>) \o RangeLoopIdx(i + step, e, step, lookup)

\* the gathered indices left in the order of the selectors
ArgSortIdxNone(idx) ==
    [i \in 1..Len(idx) |-> [SortIdx |-> i, Val |-> idx[i]]]

ArgSortIdx(idx) ==
    SortSlice([i \in 1..Len(idx) |-> [SortIdx |-> i, Val |-> idx[i]]])

RECURSIVE IdxSelLoop(_, _, _, _, _, _)
IdxSelLoop(params, sels, k, idx, vals, lookup) ==
    IF k > Len(sels)
    THEN LET arg == ArgSortIdx(idx)
         IN  SelRes(FALSE, "", [i \in 1..Len(idx) |-> arg[i].Val],
                    [i \in 1..Len(vals) |-> vals[arg[i].SortIdx]])
    ELSE LET sel == sels[k]
             n == Len(params)
         IN  IF sel.IsAll
             THEN SelRes(FALSE, "", [i \in 1..n |-> i - 1], params)
             ELSE IF ~sel.IsRange
             THEN IF IsNil(sel.Start)
                  THEN SelRes(FALSE, "starting index is null", idx, vals)
                  ELSE LET ix == Deref(sel.Start)
                       IN  IF ix < 0 \/ ix > n - 1
                           THEN SelRes(TRUE, "", idx, vals)
                           ELSE IF ix \in lookup
                           THEN IdxSelLoop(params, sels, k + 1, idx, vals, lookup)
                           ELSE IdxSelLoop(params, sels, k + 1, Append(idx, ix),
                                           Append(vals, params[ix + 1]), lookup \cup {ix})
             ELSE LET idxStart == IF IsNil(sel.Start) THEN 0 ELSE Deref(sel.Start)
                      idxEnd == IF IsNil(sel.End) THEN n - 1 ELSE Deref(sel.End)
                      step == IF IsNil(sel.Step) THEN 1 ELSE Deref(sel.Step)
                  IN  IF idxEnd > n - 1
                      THEN SelRes(TRUE, "", idx, vals)
                      ELSE IF idxStart > idxEnd
                      THEN SelRes(FALSE, "starting index must be lower or equal to ending index", idx, vals)
                      ELSE IF step < 1
                      THEN SelRes(FALSE, "indexing step must be greater or equal to 1", idx, vals)
                      ELSE LET vis == RangeLoopIdx(idxStart, idxEnd, step, lookup)
                           IN  IF \E j \in 1..Len(vis) : vis[j] < 0
                               THEN SelPanic(idx, vals)
                               ELSE IdxSelLoop(params, sels, k + 1, idx \o vis,
                                               vals \o [j \in 1..Len(vis) |-> params[vis[j] + 1]],
                                               lookup)

doSelectionByIndices(axis, tileAxis) ==
    IF axis.Grid # "enum"
    THEN SelRes(FALSE, "grid type must be 'enum' for index-based selections",
                axis.IntersectionIdx, axis.IntersectionValues)
    ELSE IdxSelLoop(axis.Params, tileAxis.IdxSelectors, 1,
                    axis.IntersectionIdx, axis.IntersectionValues, {})

(***************************************************************************)
(* doSelectionByRange                                                      *)
(***************************************************************************)
\* tileAxis as the function leaves it: a bare start is appended to InValues
TileAxisAfterRange(axis, tileAxis) ==
    IF /\ axis.Grid = "enum"
       /\ Len(axis.Params) > 0
       /\ Len(tileAxis.InValues) = 0
       /\ ~IsNil(tileAxis.Start) /\ IsNil(tileAxis.End)
    THEN [tileAxis EXCEPT !.InValues = Append(tileAxis.InValues, Deref(tileAxis.Start))]
    ELSE tileAxis

IsMonotonic(params) ==
    \A iv \in 2..Len(params) : ~(params[iv] < params[iv - 1])

\* the selector values kept: those within [minVal, maxVal]
RECURSIVE FilterInValues(_, _, _)
FilterInValues(vs, minVal, maxVal) ==
    IF vs = <<>> THEN <<>>
    ELSE (IF minVal - vs[1] > 0 \/ vs[1] - maxVal > 0 THEN <<>> ELSE <<vs[1]>>)
         \o FilterInValues(Tail(vs), minVal, maxVal)

\* the loop over axis.Params of the monotonic branch; iv is 1-based here,
\* iVal counts the selector values already matched, startVal is the current one
RECURSIVE MonoLoop(_, _, _, _, _, _, _)
MonoLoopBody(params, sorted, iv, iVal, startVal, idx, vals) ==
    IF iv > Len(params) THEN SelRes(FALSE, "", idx, vals)
    ELSE LET val == params[iv]
             valFound == IF iv < Len(params) THEN val >= startVal ELSE startVal - val <= 0
         IN  IF ~valFound
             THEN MonoLoop(params, sorted, iv + 1, iVal, startVal, idx, vals)
             ELSE LET axisIdx == IF iv >= 2 /\ Abs(startVal - params[iv - 1]) <= Abs(startVal - val)
                                 THEN iv - 1 ELSE iv
                      idx2 == Append(idx, axisIdx - 1)
                      vals2 == Append(vals, params[axisIdx])
                  IN  IF iVal + 1 >= Len(sorted)
                      THEN SelRes(FALSE, "", idx2, vals2)
                      ELSE MonoLoop(params, sorted, iv + 1, iVal + 1, sorted[iVal + 2], idx2, vals2)

MonoLoop(params0, sorted0, iv0, iVal0, startVal0, idx0, vals0) ==
    CHOOSE out \in { MonoLoopBody(params, sorted, iv, iVal, startVal, idx, vals) :
                    params \in {params0}, sorted \in {sorted0}, iv \in {iv0}, iVal \in {iVal0}, startVal \in {startVal0}, idx \in {idx0}, vals \in {vals0} } : TRUE

\* nearest-neighbour scan: the first index with the smallest |pv - val|
RECURSIVE NearestIdx(_, _, _, _, _)
NearestIdx(params, val, iv, minDiff, minIdx) ==
    IF iv > Len(params) THEN minIdx
    ELSE LET diff == Abs(params[iv] - val)
         IN  IF minDiff < 0 \/ diff < minDiff
             THEN NearestIdx(params, val, iv + 1, diff, iv)
             ELSE NearestIdx(params, val, iv + 1, minDiff, minIdx)

\* the indices (0-based) of the params with startVal <= val < endVal
RECURSIVE HalfOpenIdx(_, _, _, _)
HalfOpenIdx(params, iv, startVal, endVal) ==
    IF iv > Len(params) THEN <<>>
    ELSE (IF params[iv] >= startVal /\ params[iv] < endVal THEN <<iv - 1>> ELSE <<>>)
         \o HalfOpenIdx(params, iv + 1, startVal, endVal)

\* the default-grid selection without the timestamp equal to the end time
RECURSIVE DefaultGridIdxOpenEnd(_, _, _, _)
DefaultGridIdxOpenEnd(ts, it, startTime, endTime) ==
    IF it > Len(ts) THEN <<>>
    ELSE (IF \/ ts[it] = Deref(startTime)
             \/ ~IsNil(endTime) /\ ts[it] > Deref(startTime) /\ ts[it] < Deref(endTime)
          THEN <<it - 1>> ELSE <<>>)
         \o DefaultGridIdxOpenEnd(ts, it + 1, startTime, endTime)

\* the indices (0-based) of the timestamps selected on a default grid
RECURSIVE DefaultGridIdx(_, _, _, _)
DefaultGridIdx(ts, it, startTime, endTime) ==
    IF it > Len(ts) THEN <<>>
    ELSE (IF \/ ts[it] = Deref(startTime)
             \/ /\ ~IsNil(endTime)
                /\ \/ ts[it] = Deref(endTime)
                   \/ ts[it] > Deref(startTime) /\ ts[it] < Deref(endTime)
          THEN <<it - 1>> ELSE <<>>)
         \o DefaultGridIdx(ts, it + 1, startTime, endTime)

doSelectionByRangeBody(axis, tileAxis, geoReq, ds) ==
    LET idx0 == axis.IntersectionIdx
        vals0 == axis.IntersectionValues
        params == axis.Params
    IN
    IF axis.Grid = "enum"
    THEN IF Len(params) > 0
         THEN IF Len(tileAxis.InValues) > 0 \/ (~IsNil(tileAxis.Start) /\ IsNil(tileAxis.End))
              THEN LET tIn == TileAxisAfterRange(axis, tileAxis).InValues
                       minVal == SeqMin(params)
                       maxVal == SeqMax(params)
                       inValues == FilterInValues(tIn, minVal, maxVal)
                   IN  IF Len(inValues) = 0
                       THEN SelRes(TRUE, "", idx0, vals0)
                       ELSE IF IsMonotonic(params)
                       THEN MonoLoop(params,
                                     IF Len(inValues) > 1 THEN SortInts(inValues) ELSE inValues,
                                     1, 0, inValues[1], idx0, vals0)
                       ELSE LET near == [k \in 1..Len(inValues) |->
                                            NearestIdx(params, inValues[k], 1, -1, 1)]
                            IN  SelRes(FALSE, "",
                                       idx0 \o [k \in 1..Len(near) |-> near[k] - 1],
                                       vals0 \o [k \in 1..Len(near) |-> params[near[k]]])
              ELSE IF ~IsNil(tileAxis.Start) /\ ~IsNil(tileAxis.End)
              THEN LET startVal == Deref(tileAxis.Start)
                       endVal == Deref(tileAxis.End)
                   IN  IF endVal < params[1] \/ startVal > params[Len(params)]
                       THEN SelRes(TRUE, "", idx0, vals0)
                       ELSE LET sel == HalfOpenIdx(params, 1, startVal, endVal)
                            IN  SelRes(FALSE, "", idx0 \o sel,
                                       vals0 \o [k \in 1..Len(sel) |-> params[sel[k] + 1]])
              ELSE SelRes(FALSE, "", idx0, vals0)
         ELSE SelRes(FALSE, "Indexer error: empty params for 'enum' grid", idx0, vals0)
    ELSE IF axis.Grid = "default"
    THEN IF Len(ds.TimeStamps) > 0 /\ IsNil(geoReq.StartTime)
         THEN SelPanic(idx0, vals0)
         ELSE LET sel == DefaultGridIdx(ds.TimeStamps, 1, geoReq.StartTime, geoReq.EndTime)
                  idx1 == idx0 \o sel
              IN  IF Len(idx1) = 0
                  THEN SelRes(TRUE, "", idx1, vals0)
                  ELSE SelRes(FALSE, "", idx1,
                              vals0 \o [k \in 1..Len(sel) |-> ds.TimeStamps[sel[k] + 1]])
    ELSE SelRes(FALSE, "Indexer error: unknown axis grid type", idx0, vals0)

doSelectionByRange(axis0, tileAxis0, geoReq0, ds0) ==
    CHOOSE out \in { doSelectionByRangeBody(axis, tileAxis, geoReq, ds) :
                    axis \in {axis0}, tileAxis \in {tileAxis0}, geoReq \in {geoReq0}, ds \in {ds0} } : TRUE

(***************************************************************************)
(* TileIndexer.URLIndexGet: axis selection of every dataset of a response  *)
(***************************************************************************)
HasAxis(geoReq, name) == name \in DOMAIN geoReq.Axes

\* the stride multiplied in a second time
ApplyStrideTwice(axis) ==
    [axis EXCEPT !.IntersectionIdx =
        [i \in 1..Len(axis.IntersectionIdx) |->
            axis.IntersectionIdx[i] * axis.Strides[1] * axis.Strides[1]]]

\* axis.IntersectionIdx[i] *= axis.Strides[0]
ApplyStride(axis) ==
    [axis EXCEPT !.IntersectionIdx =
        [i \in 1..Len(axis.IntersectionIdx) |-> axis.IntersectionIdx[i] * axis.Strides[1]]]

\* the time axis of a dataset becomes an enum grid over the timestamps
TimeAxisToEnum(axis, tileAxis, ds) ==
    IF /\ axis.Name = "time"
       /\ \/ ~IsNil(tileAxis.Start) /\ IsNil(tileAxis.End)
          \/ Len(tileAxis.InValues) > 0
          \/ Len(tileAxis.IdxSelectors) > 0
    THEN [axis EXCEPT !.Grid = "enum", !.Params = axis.Params \o ds.TimeStamps]
    ELSE axis

\* outcome of one iteration of the loop over ds.Axes; lookup is
\* axisParamsLookup as the set of <<axis name, value>> pairs, seen its key set;
\* SelIdx records the selected parameter indices before the stride is applied,
\* SelOutRange the outRange result of the selection of the axis
AxisStep(err, panic, outRange, found, axis, geoReq, lookup, seen) ==
    [err |-> err, panic |-> panic, outRange |-> outRange, found |-> found,
     axis |-> axis, geoReq |-> geoReq, lookup |-> lookup, seen |-> seen]

WithSel(axis, r) ==
    [axis EXCEPT !.IntersectionIdx = r.idx, !.IntersectionValues = r.vals,
                 !.SelIdx = r.idx, !.SelOutRange = r.outRange]

\* the assignments after a selection call returned r
SelectionStep(r, axis, geoReq, lookup, seen) ==
    AxisStep(r.err, r.panic, r.outRange, TRUE, WithSel(axis, r), geoReq, lookup, seen)

SelectAxisFoundBody(geoReq, ds, axis0, lookup, seen) ==
    LET tileAxis == geoReq.Axes[axis0.Name]
        axis1 == TimeAxisToEnum(axis0, tileAxis, ds)
        axis == [axis1 EXCEPT !.Order = tileAxis.Order, !.Aggregate = tileAxis.Aggregate]
    IN  IF Len(tileAxis.IdxSelectors) > 0
        THEN IF axis.Name \notin seen
             THEN CHOOSE out \in
                    { SelectionStep(r, axis, geoReq,
                          lookup \cup {<<axis.Name, v>> : v \in Range(axis.Params)},
                          seen \cup {axis.Name})
                      : r \in {doSelectionByIndices(axis, tileAxis)} } : TRUE
             ELSE IF \E v \in Range(axis.Params) : <<axis.Name, v>> \notin lookup
             THEN AxisStep("index-based selection only supports homogeneous axis across files",
                           FALSE, FALSE, TRUE, axis, geoReq, lookup, seen)
             ELSE CHOOSE out \in
                    { SelectionStep(r, axis, geoReq, lookup, seen)
                      : r \in {doSelectionByIndices(axis, tileAxis)} } : TRUE
        ELSE CHOOSE out \in
               { SelectionStep(r, axis,
                     [geoReq EXCEPT !.Axes[axis.Name] = TileAxisAfterRange(axis, tileAxis)],
                     lookup, seen)
                 : r \in {doSelectionByRange(axis, tileAxis, geoReq, ds)} } : TRUE

SelectAxisFound(geoReq0, ds0, axis00, lookup0, seen0) ==
    CHOOSE out \in { SelectAxisFoundBody(geoReq, ds, axis0, lookup, seen) :
                    geoReq \in {geoReq0}, ds \in {ds0}, axis0 \in {axis00}, lookup \in {lookup0}, seen \in {seen0} } : TRUE

SelectAxisNotFound(geoReq, ds, axis, lookup, seen) ==
    LET idx0 == axis.IntersectionIdx
        vals0 == axis.IntersectionValues
        ok(a) == AxisStep("", FALSE, FALSE, FALSE, [a EXCEPT !.SelIdx = a.IntersectionIdx],
                          geoReq, lookup, seen)
        fail(e) == AxisStep(e, FALSE, FALSE, FALSE, axis, geoReq, lookup, seen)
    IN  IF geoReq.AxisMapping = 0
        THEN IF axis.Grid = "enum"
             THEN IF Len(axis.Params) = 0
                  THEN fail("Indexer error: empty params for 'enum' grid")
                  ELSE ok([axis EXCEPT !.IntersectionIdx = Append(idx0, 0),
                                       !.Order = 1, !.Aggregate = 1,
                                       !.IntersectionValues = Append(vals0, axis.Params[1])])
             ELSE IF axis.Grid = "default"
             THEN IF Len(ds.TimeStamps) = 0
                  THEN AxisStep("", TRUE, FALSE, FALSE, axis, geoReq, lookup, seen)
                  ELSE ok([axis EXCEPT !.IntersectionIdx = Append(idx0, 0),
                                       !.Order = 1, !.Aggregate = 1,
                                       !.IntersectionValues = Append(vals0, ds.TimeStamps[1])])
             ELSE fail("Indexer error: unknown axis grid type")
        ELSE IF axis.Grid = "enum"
             THEN IF Len(axis.Params) = 0
                  THEN fail("Indexer error: empty params for 'enum' grid")
                  ELSE ok([axis EXCEPT
                             !.IntersectionIdx = idx0 \o [i \in 1..Len(axis.Params) |-> i - 1],
                             !.IntersectionValues = vals0 \o axis.Params])
             ELSE IF axis.Grid = "default"
             THEN ok([axis EXCEPT
                        !.IntersectionIdx = idx0 \o [i \in 1..Len(ds.TimeStamps) |-> i - 1],
                        !.IntersectionValues = vals0 \o ds.TimeStamps])
             ELSE fail("Indexer error: unknown axis grid type")

\* the stride multiplication that ends an iteration without error
StrideStep(r) ==
    IF r.err # "" \/ r.panic THEN r
    ELSE [r EXCEPT !.axis = ApplyStride(r.axis)]

\* one iteration of "for ia, axis := range ds.Axes", the stride included
SelectAxis(geoReq, ds, axis, lookup, seen) ==
    CHOOSE out \in
        { StrideStep(r) : r \in { IF HasAxis(geoReq, axis.Name)
                                 THEN SelectAxisFound(geoReq, ds, axis, lookup, seen)
                                 ELSE SelectAxisNotFound(geoReq, ds, axis, lookup, seen) } }
        : TRUE

\* isOutRange after an axis: assigned from outRange when the request has the axis
IsOutRangeAfter(isOutRange, r) ==
    IF r.found THEN r.outRange ELSE isOutRange

\* the loop over the axes of one dataset, from axis ia on; AxesLoopNext is the
\* rest of the iteration once the axis is selected with outcome r
RECURSIVE SelectAxesLoop(_, _, _, _, _, _)
RECURSIVE AxesLoopNext(_, _, _, _)
SelectAxesLoop(geoReq, ds, ia, isOutRange, lookup, seen) ==
    IF ia > Len(ds.Axes)
    THEN [err |-> "", panic |-> FALSE, geoReq |-> geoReq, lookup |-> lookup, seen |-> seen,
          ds |-> [ds EXCEPT !.IsOutRange = IF isOutRange THEN TRUE ELSE ds.IsOutRange]]
    ELSE CHOOSE out \in
             { AxesLoopNext(r, ds, ia, isOutRange)
               : r \in {SelectAxis(geoReq, ds, ds.Axes[ia], lookup, seen)} } : TRUE

AxesLoopNext(r, ds, ia, isOutRange) ==
    IF r.err # "" \/ r.panic
    THEN [err |-> r.err, panic |-> r.panic, geoReq |-> r.geoReq,
          lookup |-> r.lookup, seen |-> r.seen, ds |-> [ds EXCEPT !.Axes[ia] = r.axis]]
    ELSE SelectAxesLoop(r.geoReq, [ds EXCEPT !.Axes[ia] = r.axis], ia + 1,
                        IsOutRangeAfter(isOutRange, r), r.lookup, r.seen)

DefaultTimeAxis ==
    [Name |-> "time", Params |-> <<>>, Strides |-> <<1>>, Grid |-> "default",
     IntersectionIdx |-> <<>>, IntersectionValues |-> <<>>, SelIdx |-> <<>>,
     SelOutRange |-> FALSE, Order |-> 0, Aggregate |-> 0]

WithDefaultAxis(ds) ==
    IF Len(ds.Axes) = 0 THEN [ds EXCEPT !.Axes = <<DefaultTimeAxis>>] ELSE ds

\* the first loop over metadata.GDALDatasets, from dataset k on;
\* DatasetsLoopNext is the rest of the iteration once the axes of dataset k
\* are selected with outcome r
RECURSIVE SelectDatasets(_, _, _, _, _)
RECURSIVE DatasetsLoopNext(_, _, _)
SelectDatasets(geoReq, dss, k, lookup, seen) ==
    IF k > Len(dss)
    THEN [err |-> "", panic |-> FALSE, geoReq |-> geoReq, dss |-> dss]
    ELSE CHOOSE out \in
             { DatasetsLoopNext(r, dss, k)
               : r \in {SelectAxesLoop(geoReq, WithDefaultAxis(dss[k]), 1, FALSE,
                                       lookup, seen)} } : TRUE

DatasetsLoopNext(r, dss, k) ==
    IF r.err # "" \/ r.panic
    THEN [err |-> r.err, panic |-> r.panic, geoReq |-> r.geoReq,
          dss |-> [dss EXCEPT ![k] = r.ds]]
    ELSE SelectDatasets(r.geoReq, [dss EXCEPT ![k] = r.ds], k + 1, r.lookup, r.seen)

(***************************************************************************)
(* TileIndexer.URLIndexGet: expansion of the selected indices to granules  *)
(***************************************************************************)
\* a plain namespace string, and one with the "#axis=value,..." suffix
NS(name) == <<name, <<>>>>

\* the sentinel with the 1 x 1 size of an empty-tile dataset granule
EmptyTileGranuleUnit(geoReq) ==
    [Path |-> "NULL", NameSpace |-> NS(EmptyTileNS), VarNameSpace |-> "",
     RasterType |-> "Byte", TimeStamp |-> 0, BandIdx |-> 0,
     BBox |-> geoReq.BBox, Height |-> 1, Width |-> 1,
     NameSpaces |-> <<NS(EmptyTileNS)>>, Src |-> [ds |-> 0, cnt |-> <<>>]]

EmptyTileGranule(geoReq) ==
    [Path |-> "NULL", NameSpace |-> NS(EmptyTileNS), VarNameSpace |-> "",
     RasterType |-> "Byte", TimeStamp |-> 0, BandIdx |-> 0,
     BBox |-> geoReq.BBox, Height |-> geoReq.Height, Width |-> geoReq.Width,
     NameSpaces |-> <<NS(EmptyTileNS)>>, Src |-> [ds |-> 0, cnt |-> <<>>]]

\* the body of "for i := 0; i < len(axisIdxCnt); i++" for one combination cnt
\* (cnt is 0-based as axisIdxCnt is); acc carries bandIdx, the two timestamps
\* and the namespace suffix
RECURSIVE CombLoop(_, _, _, _)
CombLoop(ds, cnt, i, acc) ==
    IF i > Len(cnt) THEN acc
    ELSE LET axis == ds.Axes[i]
             n == Len(axis.IntersectionIdx)
             c == cnt[i]
         IN  IF c + 1 > n \/ c + 1 > Len(axis.IntersectionValues)
             THEN [acc EXCEPT !.panic = TRUE]
             ELSE LET iTimeStamp == IF axis.Order # 0 THEN n - c - 1 ELSE c
                  IN  CombLoop(ds, cnt, i + 1,
                        [acc EXCEPT
                           !.bandIdx = acc.bandIdx + axis.IntersectionIdx[c + 1],
                           !.bandTimeStamp = acc.bandTimeStamp + axis.IntersectionValues[c + 1],
                           !.aggTimeStamp = acc.aggTimeStamp + axis.IntersectionValues[iTimeStamp + 1],
                           !.suffix = IF axis.Aggregate = 0
                                      THEN Append(acc.suffix, <<axis.Name, axis.IntersectionValues[c + 1]>>)
                                      ELSE acc.suffix])

Comb(ds, cnt) ==
    CombLoop(ds, cnt, 1, [panic |-> FALSE, bandIdx |-> 1, bandTimeStamp |-> 0,
                          aggTimeStamp |-> 0, suffix |-> <<>>])

\* the odometer step at the end of the expansion loop, from axis ia down
RECURSIVE Carry(_, _, _)
Carry(ds, axisIdxCnt, ia) ==
    IF ia > 1 /\ axisIdxCnt[ia] >= Len(ds.Axes[ia].IntersectionIdx)
    THEN Carry(ds, [i \in 1..Len(axisIdxCnt) |->
                      IF i = ia THEN 0
                      ELSE IF i = ia - 1 THEN axisIdxCnt[i] + 1
                      ELSE axisIdxCnt[i]], ia - 1)
    ELSE axisIdxCnt

NextComb(ds, cur) ==
    Carry(ds, [i \in 1..Len(cur) |-> IF i = Len(cur) THEN cur[i] + 1 ELSE cur[i]], Len(cur))

\* bandNameSpaces[dsNameSpace][namespace] as the list of entries in the order
\* of their insertion
BandFound(bands, dsNameSpace, namespace) ==
    \E j \in 1..Len(bands) : bands[j].DS = dsNameSpace /\ bands[j].Name = namespace

DatasetGranule(geoReq, ds, k, comb, c, namespace, isEmptyTile) ==
    [Path |-> IF isEmptyTile THEN "NULL" ELSE ds.DSName,
     NameSpace |-> namespace, VarNameSpace |-> ds.NameSpace,
     RasterType |-> IF isEmptyTile THEN "Byte" ELSE ds.ArrayType,
     TimeStamp |-> c.aggTimeStamp, BandIdx |-> c.bandIdx,
     BBox |-> geoReq.BBox,
     Height |-> IF isEmptyTile THEN 1 ELSE geoReq.Height,
     Width |-> IF isEmptyTile THEN 1 ELSE geoReq.Width,
     NameSpaces |-> [j \in 1..Len(geoReq.NameSpaces) |-> NS(geoReq.NameSpaces[j])],
     Src |-> [ds |-> k, cnt |-> comb]]

\* "for axisIdxCnt[0] < len(ds.Axes[0].IntersectionIdx)" for dataset k
RECURSIVE ExpandLoop(_, _, _, _, _, _, _)
ExpandLoopBody(geoReq, ds, k, cnt, isEmptyTile, granList, bands) ==
    IF ~(cnt[1] < Len(ds.Axes[1].IntersectionIdx))
    THEN [panic |-> FALSE, granList |-> granList, bands |-> bands]
    ELSE LET c == Comb(ds, cnt)
             dsNameSpace == IF isEmptyTile THEN EmptyTileNS ELSE ds.NameSpace
             namespace == <<dsNameSpace, c.suffix>>
             hasNonAgg == c.suffix # <<>>
             bFound == hasNonAgg /\ BandFound(bands, dsNameSpace, namespace)
             bands2 == IF hasNonAgg /\ ~bFound
                       THEN Append(bands, [DS |-> dsNameSpace, Name |-> namespace,
                                           Val |-> c.bandTimeStamp])
                       ELSE bands
             granList2 == IF ~isEmptyTile \/ (isEmptyTile /\ ~bFound)
                          THEN Append(granList,
                                 DatasetGranule(geoReq, ds, k, cnt, c, namespace, isEmptyTile))
                          ELSE granList
         IN  IF c.panic
             THEN [panic |-> TRUE, granList |-> granList, bands |-> bands]
             ELSE ExpandLoop(geoReq, ds, k, NextComb(ds, cnt), isEmptyTile, granList2, bands2)

ExpandLoop(geoReq0, ds0, k0, cnt0, isEmptyTile0, granList0, bands0) ==
    CHOOSE out \in { ExpandLoopBody(geoReq, ds, k, cnt, isEmptyTile, granList, bands) :
                    geoReq \in {geoReq0}, ds \in {ds0}, k \in {k0}, cnt \in {cnt0}, isEmptyTile \in {isEmptyTile0}, granList \in {granList0}, bands \in {bands0} } : TRUE

\* the second loop over metadata.GDALDatasets, from dataset k on
RECURSIVE ExpandDatasets(_, _, _, _, _, _)
ExpandDatasets(geoReq, dss, k, isEmptyTile, granList, bands) ==
    IF k > Len(dss)
    THEN [panic |-> FALSE, granList |-> granList, bands |-> bands]
    ELSE IF dss[k].IsOutRange
    THEN ExpandDatasets(geoReq, dss, k + 1, isEmptyTile, granList, bands)
    ELSE LET r == ExpandLoop(geoReq, dss[k], k, [i \in 1..Len(dss[k].Axes) |-> 0],
                             isEmptyTile, granList, bands)
         IN  IF r.panic THEN r
             ELSE ExpandDatasets(geoReq, dss, k + 1, isEmptyTile, r.granList, r.bands)

(***************************************************************************)
(* TileIndexer.URLIndexGet: the NameSpaces list of the emitted granules    *)
(***************************************************************************)
\* the entries of bandNameSpaces[ns], in insertion order
BandsOf(bands, ns) == SelectSeq(bands, LAMBDA b : b.DS = ns)

\* all orders of the elements of a set of positions
RECURSIVE Perms(_)
Perms(S) ==
    IF S = {} THEN {<<>>}
    ELSE UNION {{<<x>> \o p : p \in Perms(S \ {x})} : x \in S}

\* "for bns, val := range bands" fills bandNsList in the unspecified order of
\* map iteration, and sort.Slice with the comparator Val <= Val orders it by Val
\* without keeping equal elements in place: bandNsList ends ascending in Val,
\* the entries of equal Val in any order.  vals is the set of Val not yet placed.
RECURSIVE SortedFrom(_, _)
SortedFrom(entries, vals) ==
    IF vals = {} THEN {<<>>}
    ELSE LET v == CHOOSE x \in vals : \A y \in vals : x <= y
             grp == {i \in 1..Len(entries) : entries[i].Val = v}
         IN  {[i \in 1..Len(p) |-> entries[p[i]]] \o rest :
                 p \in Perms(grp), rest \in SortedFrom(entries, vals \ {v})}

\* the lists bandNsList can be after sort.Slice
SortedBandNsLists(entries) ==
    SortedFrom(entries, {entries[i].Val : i \in 1..Len(entries)})

Names(l) == [i \in 1..Len(l) |-> l[i].Name]

\* the values sortedNameSpaces can take: "for _, ns := range geoReq.NameSpaces"
RECURSIVE SortedNameSpacesFrom(_, _, _)
SortedNameSpacesFrom(nss, bands, k) ==
    IF k > Len(nss) THEN {<<>>}
    ELSE LET entries == BandsOf(bands, nss[k])
             heads == IF entries # <<>>
                      THEN {Names(l) : l \in SortedBandNsLists(entries)}
                      ELSE {<<NS(nss[k])>>}
         IN  {h \o t : h \in heads, t \in SortedNameSpacesFrom(nss, bands, k + 1)}

SortedNameSpaces(geoReq, bands) == SortedNameSpacesFrom(geoReq.NameSpaces, bands, 1)

HasNewNs(geoReq, bands) ==
    \E k \in 1..Len(geoReq.NameSpaces) : BandsOf(bands, geoReq.NameSpaces[k]) # <<>>

\* the granules as the final loop sends them: with the new ConfigPayLoad
WithNameSpaces(geoReq, granList, bands, sorted) ==
    IF HasNewNs(geoReq, bands)
    THEN [i \in 1..Len(granList) |-> [granList[i] EXCEPT !.NameSpaces = sorted]]
    ELSE granList

(***************************************************************************)
(* TileIndexer.Run: the queries of one request                             *)
(*                                                                         *)
(* Coordinates are integers; IndexTileXSize / IndexTileYSize are held in   *)
(* units of 1/256, so that int(float64(resWidth) * IndexTileXSize) is the  *)
(* stored number.  A URL is the record of the values formatted into it.    *)
(***************************************************************************)
ResWidth == 256
ResHeight == 256

\* the min / max scan over axis.InValues of the time axis
RECURSIVE MinMaxScan(_, _, _, _)
MinMaxScan(vs, i, minVal, maxVal) ==
    IF i > Len(vs) THEN <<minVal, maxVal>>
    ELSE IF i = 1 THEN MinMaxScan(vs, 2, vs[1], vs[1])
    ELSE IF vs[i] < minVal THEN MinMaxScan(vs, i + 1, vs[i], maxVal)
    ELSE IF vs[i] > maxVal THEN MinMaxScan(vs, i + 1, minVal, vs[i])
    ELSE MinMaxScan(vs, i + 1, minVal, maxVal)

\* StartTime / EndTime as Run derives them from the "time" axis
WithTimeWindow(geoReq) ==
    IF ~HasAxis(geoReq, "time") THEN geoReq
    ELSE LET axis == geoReq.Axes["time"]
         IN  IF Len(axis.InValues) > 0
             THEN LET mm == MinMaxScan(axis.InValues, 1, 0, 0)
                  IN  [geoReq EXCEPT !.StartTime = Some(mm[1]),
                                     !.EndTime = IF mm[2] > mm[1] THEN Some(mm[2]) ELSE @]
             ELSE [geoReq EXCEPT !.StartTime = IF ~IsNil(axis.Start) THEN axis.Start ELSE @,
                                 !.EndTime = IF ~IsNil(axis.End) THEN axis.End ELSE @]

WithNameSpaceDefault(geoReq) ==
    IF Len(geoReq.NameSpaces) = 0 THEN [geoReq EXCEPT !.NameSpaces = <<"">>] ELSE geoReq

IsEmptyTileReq(geoReq) ==
    Len(geoReq.NameSpaces) > 0 /\ geoReq.NameSpaces[1] = EmptyTileNS

\* strings.Join(geoReq.NameSpaces, ","), cleared for an empty-tile request
JoinedNameSpaces(geoReq) ==
    IF IsEmptyTileReq(geoReq) \/ geoReq.NameSpaces = <<"">> THEN <<>> ELSE geoReq.NameSpaces

\* geoReq.Mask.ID as a joined namespace string
MaskIDJoined(mask) == IF mask.ID = "" THEN <<>> ELSE <<mask.ID>>

getIndexerURL(geoReq, nameSpaces, bboxWkt, crs) ==
    [Collection |-> geoReq.Collection, Time |-> geoReq.StartTime, Until |-> geoReq.EndTime,
     SRS |-> crs, WKT |-> bboxWkt, NameSpace |-> nameSpaces, Limit |-> geoReq.QueryLimit]

\* BBox2WKT: the polygon ring xMin yMin, xMax yMin, xMax yMax, xMin yMax,
\* xMin yMin; the empty string of a non_spatial query is <<>>
BBox2WKT(bbox) ==
    <<"POLYGON", <<bbox[1], bbox[2]>>, <<bbox[3], bbox[2]>>, <<bbox[3], bbox[4]>>,
      <<bbox[1], bbox[4]>>, <<bbox[1], bbox[2]>>>>

MainBBoxWkt(geoReq) ==
    IF geoReq.MasQueryHint # "non_spatial" THEN BBox2WKT(geoReq.BBox) ELSE <<>>

\* utils.GetCanonicalBbox: a copy of the box when the upper-cased, trimmed srs
\* is EPSG:3857 (the only CRS of the requests modelled here); any other srs
\* goes through a coordinate transformation, whose failure (<<>>) skips the clip
GetCanonicalBbox(crs, bbox) ==
    IF crs = "EPSG:3857" THEN [i \in 1..Len(bbox) |-> bbox[i]] ELSE <<>>

HasSpatialExtent(geoReq) == Len(geoReq.SpatialExtent) >= 4

ClippedBBox(geoReq) ==
    LET c == GetCanonicalBbox(geoReq.CRS, geoReq.BBox)
        e == geoReq.SpatialExtent
    IN  <<Max2(c[1], e[1]), Max2(c[2], e[2]), Min2(c[3], e[3]), Min2(c[4], e[4])>>

\* the test of the clipped box left out
NeverInvalidClip(c) == FALSE

IsInvalidClip(c) == c[3] < c[1] \/ c[4] < c[2]

MaxTileSize(res, indexTileSize) ==
    IF indexTileSize <= 0 THEN res ELSE indexTileSize

\* the test "if geoReq.QueryLimit <= 0 && reqRes > geoReq.IndexResLimit";
\* resolutions are compared scaled by 256 to stay in the integers
IsSubDivided(geoReq) ==
    /\ HasSpatialExtent(geoReq)
    /\ GetCanonicalBbox(geoReq.CRS, geoReq.BBox) # <<>>
    /\ ~IsInvalidClip(ClippedBBox(geoReq))
    /\ LET c == ClippedBBox(geoReq)
           reqRes256 == Max2(c[3] - c[1], c[4] - c[2])
       IN  geoReq.QueryLimit <= 0 /\ reqRes256 > geoReq.IndexResLimit * ResWidth

\* the tile origins of the whole tiles only: a last tile cut by res is left out
RECURSIVE TileOriginsWhole(_, _, _)
TileOriginsWhole(o, size, res) ==
    IF o + size > res THEN <<>> ELSE <<o>> \o TileOriginsWhole(o + size, size, res)

\* the tile origins 0, size, 2 size, ... below res
RECURSIVE TileOrigins(_, _, _)
TileOrigins(o, size, res) ==
    IF o >= res THEN <<>> ELSE <<o>> \o TileOrigins(o + size, size, res)

\* the sub-tile bounding boxes in loop order (y outer, x inner)
SubTileBBoxes(geoReq) ==
    LET c == ClippedBBox(geoReq)
        maxX == MaxTileSize(ResWidth, geoReq.IndexTileXSize)
        maxY == MaxTileSize(ResHeight, geoReq.IndexTileYSize)
        xs == TileOrigins(0, maxX, ResWidth)
        ys == TileOrigins(0, maxY, ResHeight)
        w == c[3] - c[1]
        h == c[4] - c[2]
        box(x, y) == <<c[1] + (x * w) \div ResWidth,
                       c[2] + (y * h) \div ResHeight,
                       Min2(c[1] + ((x + maxX) * w) \div ResWidth, c[3]),
                       Min2(c[2] + ((y + maxY) * h) \div ResHeight, c[4])>>
    IN  [k \in 1..(Len(xs) * Len(ys)) |->
            box(xs[((k - 1) % Len(xs)) + 1], ys[((k - 1) \div Len(xs)) + 1])]

\* bboxWkt as it stands when the mask query is formatted
BBoxWktAtMask(geoReq) ==
    IF IsSubDivided(geoReq)
    THEN LET b == SubTileBBoxes(geoReq) IN BBox2WKT(b[Len(b)])
    ELSE MainBBoxWkt(geoReq)

HasMaskQuery(geoReq) ==
    /\ ~IsNil(geoReq.Mask)
    /\ LET mask == Deref(geoReq.Mask)
           maskCollection == IF mask.DataSource = "" THEN geoReq.Collection ELSE mask.DataSource
       IN  maskCollection # geoReq.Collection \/ MaskIDJoined(mask) # JoinedNameSpaces(geoReq)

MaskURL(geoReq) ==
    LET mask == Deref(geoReq.Mask)
        maskCollection == IF mask.DataSource = "" THEN geoReq.Collection ELSE mask.DataSource
    IN  [Collection |-> maskCollection, Time |-> geoReq.StartTime, Until |-> geoReq.EndTime,
         SRS |-> geoReq.CRS, WKT |-> BBoxWktAtMask(geoReq), NameSpace |-> MaskIDJoined(mask),
         Limit |-> geoReq.QueryLimit]

\* the URLs Run starts a URLIndexGet task for, each with its kind
RequestQueries(geoReq) ==
    LET ns == JoinedNameSpaces(geoReq)
        subs == SubTileBBoxes(geoReq)
        main == IF IsSubDivided(geoReq)
                THEN [k \in 1..Len(subs) |->
                        [kind |-> "sub",
                         url |-> getIndexerURL(geoReq, ns, BBox2WKT(subs[k]), "EPSG:3857")]]
                ELSE <<[kind |-> "main",
                        url |-> getIndexerURL(geoReq, ns, MainBBoxWkt(geoReq), geoReq.CRS)]>>
    IN  IF HasMaskQuery(geoReq)
        THEN Append(main, [kind |-> "mask", url |-> MaskURL(geoReq)])
        ELSE main

(***************************************************************************)
(* Inputs                                                                  *)
(***************************************************************************)
TileAxis(start, end, inValues, idxSelectors, order, aggregate) ==
    [Start |-> start, End |-> end, InValues |-> inValues, IdxSelectors |-> idxSelectors,
     Order |-> order, Aggregate |-> aggregate]

IdxSelector(isRange, isAll, start, end, step) ==
    [IsRange |-> isRange, IsAll |-> isAll, Start |-> start, End |-> end, Step |-> step]

Axis(name, params, stride, grid) ==
    [Name |-> name, Params |-> params, Strides |-> <<stride>>, Grid |-> grid,
     IntersectionIdx |-> <<>>, IntersectionValues |-> <<>>, SelIdx |-> <<>>,
     SelOutRange |-> FALSE, Order |-> 0, Aggregate |-> 0]

Dataset(dsName, nameSpace, timeStamps, axes) ==
    [DSName |-> dsName, NameSpace |-> nameSpace, ArrayType |-> "Float32",
     TimeStamps |-> timeStamps, Axes |-> axes, IsOutRange |-> FALSE]

OkResp(dss) == [kind |-> "ok", GDALDatasets |-> dss]
FailResp(kind) == [kind |-> kind, GDALDatasets |-> <<>>]

BaseReq ==
    [Collection |-> "c", CRS |-> "EPSG:3857", BBox |-> <<0, 0, 512, 512>>,
     Width |-> 256, Height |-> 256, NameSpaces |-> <<"a">>,
     StartTime |-> Some(10), EndTime |-> Nil,
     Axes |-> [n \in {"time"} |-> TileAxis(Nil, Nil, <<10, 20>>, <<>>, 0, 0)],
     SpatialExtent |-> <<>>, IndexTileXSize |-> 0, IndexTileYSize |-> 0,
     QueryLimit |-> 0, IndexResLimit |-> 0, Mask |-> Nil, MasQueryHint |-> "",
     AxisMapping |-> 0]

MaskM == Some([ID |-> "m", DataSource |-> ""])

\* the requests of the pipeline model: blank collection, sub-divided in two
\* sub-tiles with a mask query (three URL tasks), outside the spatial extent
Requests ==
    { [BaseReq EXCEPT !.Collection = " "],
      [BaseReq EXCEPT !.SpatialExtent = <<0, 0, 512, 512>>, !.IndexTileXSize = 128,
                      !.Mask = MaskM],
      [BaseReq EXCEPT !.SpatialExtent = <<1024, 1024, 2048, 2048>>] }

\* the responses of the metadata service in the pipeline model
Responses ==
    { FailResp("getFail"),
      OkResp(<<Dataset("f1", "a", <<10>>, <<>>)>>),
      OkResp(<<Dataset("f2", "a", <<10, 20>>, <<>>)>>) }

\* bounds of the selection model: timestamps per dataset, parameters of the
\* "level" axis
NumTimes == 2
NumLevels == 2

TimeStampsOf(first, n) == [i \in 1..n |-> 10 * (first + i - 1)]
\* the first two levels are as far apart as the first and the last timestamp
\* of a dataset, so that the sums level + time of one pair of bands tie; the
\* other levels give no tie
LevelsOf(n) ==
    [i \in 1..n |-> IF i = 1 THEN 10 ELSE IF i = 2 THEN 10 * NumTimes ELSE 100 * i]

\* selectors of the "time" axis: enumerated values, bare start (in and out of
\* the timestamps), start and end, index selectors (points, one past the end;
\* a range; the first point)
TimeSelectors ==
    { TileAxis(Nil, Nil, <<10, 20>>, <<>>, o[1], o[2]) : o \in {<<0, 0>>, <<1, 0>>, <<0, 1>>} }
    \cup { TileAxis(Some(v), Nil, <<>>, <<>>, 0, 0) : v \in {10, 990} }
    \cup { TileAxis(Some(10), Some(40), <<>>, <<>>, 0, 0),
           TileAxis(Nil, Nil, <<>>,
                    <<IdxSelector(FALSE, FALSE, Some(0), Nil, Nil),
                      IdxSelector(FALSE, FALSE, Some(NumTimes), Nil, Nil)>>, 0, 0),
           TileAxis(Nil, Nil, <<>>,
                    <<IdxSelector(TRUE, FALSE, Some(0), Some(NumTimes - 1), Nil)>>, 1, 0),
           TileAxis(Nil, Nil, <<>>,
                    <<IdxSelector(FALSE, FALSE, Some(0), Nil, Nil)>>, 0, 0) }

\* selectors of the "level" axis: enumerated values, an interval over the
\* levels, an interval between two levels, a bare start past the levels
LevelSelectors ==
    { TileAxis(Nil, Nil, <<10, 20>>, <<>>, 0, 0),
      TileAxis(Some(10), Some(40), <<>>, <<>>, 0, 1),
      TileAxis(Some(12), Some(15), <<>>, <<>>, 0, 0),
      TileAxis(Some(990), Nil, <<>>, <<>>, 0, 0) }

\* the requests of the selection model, as Run hands them to URLIndexGet
SelRequests ==
    { WithNameSpaceDefault(WithTimeWindow(
        [BaseReq EXCEPT !.Axes = [n \in {"time"} |-> ta], !.AxisMapping = m])) :
        ta \in TimeSelectors, m \in {0, 1} }
    \cup
    { WithNameSpaceDefault(WithTimeWindow(
        [BaseReq EXCEPT !.Axes = [n \in {"time", "level"} |->
                                     IF n = "time" THEN ta ELSE la]])) :
        ta \in TimeSelectors, la \in LevelSelectors }

\* datasets: without axes; time x level; level x time
SelDatasets(first) ==
    LET ts == TimeStampsOf(first, NumTimes)
        lv == LevelsOf(NumLevels)
    IN  { Dataset("f", "a", ts, <<>>),
          Dataset("f", "a", ts, <<Axis("time", <<>>, NumLevels, "default"),
                                  Axis("level", lv, 1, "enum")>>),
          Dataset("f", "a", ts, <<Axis("level", lv, NumTimes, "enum"),
                                  Axis("time", <<>>, 1, "default")>>) }

\* the responses of the selection model: the three failures, no dataset, one
\* dataset, two datasets with the same axes of which the second starts one
\* timestamp later, and two datasets of which the second lacks the last
\* timestamp of the first
SelResponses ==
    { FailResp("getFail"), FailResp("readFail"), FailResp("jsonFail"), OkResp(<<>>) }
    \cup { OkResp(<<d>>) : d \in SelDatasets(1) }
    \cup UNION { { OkResp(<<d, [e EXCEPT !.DSName = "g"]>>) :
                      e \in {x \in SelDatasets(2) : x.Axes = d.Axes} } :
                  d \in SelDatasets(1) }
    \cup { OkResp(<<Dataset("f", "a", TimeStampsOf(1, NumTimes), <<>>),
                    Dataset("g", "a", TimeStampsOf(1, NumTimes - 1), <<>>)>>) }

(***************************************************************************)
(* State                                                                   *)
(***************************************************************************)
VARIABLES
    In,         \* p.In: the requests queued for Run
    inClosed,   \* p.In has been closed by the producer
    sent,       \* number of requests the producer has sent
    Out,        \* p.Out: the granules queued for the consumer
    outClosed,  \* number of times close(p.Out) has run
    Error,      \* p.Error: the capacity-1 error channel
    ctxDone,    \* p.Context is cancelled
    run,        \* TileIndexer.Run: its position and locals; history: sel is the
                \* case its select took for the request, own the granules it
                \* sent, deq the request as it was received
    req,        \* the request Run has dequeued (shared with its tasks)
    tasks,      \* the URLIndexGet tasks of that request
    masResp,    \* the metadata service: a fixed response, or any response
    emitted,    \* history: the granules each task has sent on Out
    postCancel, \* history: per task, dataset granules sent after cancellation
    firstErr,   \* history: the first error that was placed on p.Error
    call        \* a call of one function on its own: its arguments, its result

vars == <<In, inClosed, sent, Out, outClosed, Error, ctxDone, run, req, tasks,
          masResp, emitted, postCancel, firstErr, call>>

\* bounds of the model
MaxReq == 2
OutCap == 2
InCap == 2

TaskIds == DOMAIN tasks

CtxErr == <<"tile indexer: context has been cancel", 0>>

\* capacity of the shared error channel
ErrCap == 1

\* select { case p.Error <- err: default: } as a function of the channel
sendError(ch, err) == IF Len(ch) < ErrCap THEN Append(ch, err) ELSE ch

\* history of the first error ever accepted by the channel
FirstErrAfter(ch, err) == IF IsNil(firstErr) /\ Len(ch) < ErrCap THEN Some(err) ELSE firstErr

NoResp == [kind |-> "none", GDALDatasets |-> <<>>]

\* no function is called on its own
NoCall == [pc |-> "none"]

\* a started URLIndexGet; failed is history: the HTTP GET, read or decode failed
NewTask(q) ==
    [pc |-> "get", kind |-> q.kind, url |-> q.url, md |-> NoResp, dss |-> <<>>,
     granList |-> <<>>, i |-> 1, held |-> <<>>, failed |-> FALSE]

\* the responses the metadata service can give to a query
MasChoices(all) == IF masResp.fixed THEN {masResp.md} ELSE all

\* no task has hit a run-time fault (which ends the process)
Alive == \A t \in TaskIds : tasks[t].pc # "panic"

\* strings.TrimSpace left out
TrimSpaceNone(str) == str

TrimSpace(str) == IF str = " " THEN "" ELSE str

(***************************************************************************)
(* TileIndexer.URLIndexGet, task t                                         *)
(***************************************************************************)
\* http.Get, ioutil.ReadAll or json.Unmarshal fails: the error is offered to
\* p.Error and the task goes on to send the empty-tile granule
HttpFail(t, all) ==
    /\ Alive
    /\ tasks[t].pc = "get"
    /\ \E r \in MasChoices(all) :
          /\ r.kind \in {"getFail", "readFail", "jsonFail"}
          /\ Error' = sendError(Error, <<r.kind, t>>)
          /\ firstErr' = FirstErrAfter(Error, <<r.kind, t>>)
    /\ tasks' = [tasks EXCEPT ![t].pc = "sentinel", ![t].failed = TRUE]
    /\ UNCHANGED <<call, In, inClosed, sent, Out, outClosed, ctxDone, run, req, masResp,
                   emitted, postCancel>>

\* the response decodes: zero datasets lead to the empty-tile granule
HttpOk(t, all) ==
    /\ Alive
    /\ tasks[t].pc = "get"
    /\ \E r \in MasChoices(all) :
          /\ r.kind = "ok"
          /\ tasks' = IF Len(r.GDALDatasets) = 0
                      THEN [tasks EXCEPT ![t].pc = "sentinel"]
                      ELSE [tasks EXCEPT ![t].pc = "select", ![t].md = r]
    /\ UNCHANGED <<call, In, inClosed, sent, Out, outClosed, Error, ctxDone, run, req, masResp,
                   emitted, postCancel, firstErr>>

\* out <- empty-tile granule; return
SendSentinel(t) ==
    /\ Alive
    /\ tasks[t].pc = "sentinel"
    /\ Len(Out) < OutCap
    /\ outClosed = 0
    /\ Out' = Append(Out, EmptyTileGranule(req))
    /\ emitted' = [emitted EXCEPT ![t] = Append(@, EmptyTileGranule(req))]
    /\ tasks' = [tasks EXCEPT ![t].pc = "done"]
    /\ UNCHANGED <<call, In, inClosed, sent, outClosed, Error, ctxDone, run, req, masResp,
                   postCancel, firstErr>>

\* the first loop over the datasets: axis selection against the request
SelectStep(t) ==
    /\ Alive
    /\ tasks[t].pc = "select"
    /\ \E r \in {SelectDatasets(req, tasks[t].md.GDALDatasets, 1, {}, {})} :
           /\ req' = r.geoReq
           /\ IF r.panic
              THEN /\ tasks' = [tasks EXCEPT ![t].pc = "panic", ![t].md = NoResp]
                   /\ UNCHANGED <<Error, firstErr>>
              ELSE IF r.err # ""
              THEN /\ tasks' = [tasks EXCEPT ![t].pc = "done", ![t].md = NoResp]
                   /\ Error' = sendError(Error, <<r.err, t>>)
                   /\ firstErr' = FirstErrAfter(Error, <<r.err, t>>)
              ELSE /\ tasks' = [tasks EXCEPT ![t].pc = "expand", ![t].md = NoResp,
                                             ![t].dss = r.dss]
                   /\ UNCHANGED <<Error, firstErr>>
    /\ UNCHANGED <<call, In, inClosed, sent, Out, outClosed, ctxDone, run, masResp,
                   emitted, postCancel>>

\* the second loop over the datasets and the sort of the namespaces
ExpandStep(t) ==
    /\ Alive
    /\ tasks[t].pc = "expand"
    /\ \E e \in {ExpandDatasets(req, tasks[t].dss, 1, run.isEmptyTile, <<>>, <<>>)} :
           IF e.panic
           THEN tasks' = [tasks EXCEPT ![t].pc = "panic"]
           ELSE \E sorted \in SortedNameSpaces(req, e.bands) :
                   tasks' = [tasks EXCEPT
                      ![t].pc = IF Len(e.granList) = 0 THEN "done" ELSE "check",
                      ![t].granList = WithNameSpaces(req, e.granList, e.bands, sorted),
                      ![t].i = 1]
    /\ UNCHANGED <<call, In, inClosed, sent, Out, outClosed, Error, ctxDone, run, req, masResp,
                   emitted, postCancel, firstErr>>

\* checkCancellation: case <-p.Context.Done()
CheckCtx(t) ==
    /\ Alive
    /\ tasks[t].pc = "check"
    /\ ctxDone
    /\ Error' = sendError(Error, CtxErr)
    /\ firstErr' = FirstErrAfter(Error, CtxErr)
    /\ tasks' = [tasks EXCEPT ![t].pc = "done"]
    /\ UNCHANGED <<call, In, inClosed, sent, Out, outClosed, ctxDone, run, req, masResp,
                   emitted, postCancel>>

\* checkCancellation: case err := <-p.Error
CheckErr(t) ==
    /\ Alive
    /\ tasks[t].pc = "check"
    /\ Error # <<>>
    /\ Error' = Tail(Error)
    /\ tasks' = [tasks EXCEPT ![t].pc = "putback", ![t].held = <<Head(Error)>>]
    /\ UNCHANGED <<call, In, inClosed, sent, Out, outClosed, ctxDone, run, req, masResp,
                   emitted, postCancel, firstErr>>

\* ... p.sendError(err); return true
PutBack(t) ==
    /\ Alive
    /\ tasks[t].pc = "putback"
    /\ Error' = sendError(Error, tasks[t].held[1])
    /\ firstErr' = FirstErrAfter(Error, tasks[t].held[1])
    /\ tasks' = [tasks EXCEPT ![t].pc = "done", ![t].held = <<>>]
    /\ UNCHANGED <<call, In, inClosed, sent, Out, outClosed, ctxDone, run, req, masResp,
                   emitted, postCancel>>

\* the default case of checkCancellation is taken when no other case is ready
CheckDefaultReady == ~ctxDone /\ Error = <<>>

CheckDefault(t) ==
    /\ Alive
    /\ tasks[t].pc = "check"
    /\ CheckDefaultReady
    /\ tasks' = [tasks EXCEPT ![t].pc = "send"]
    /\ UNCHANGED <<call, In, inClosed, sent, Out, outClosed, Error, ctxDone, run, req, masResp,
                   emitted, postCancel, firstErr>>

\* out <- gran
SendGranule(t) ==
    /\ Alive
    /\ tasks[t].pc = "send"
    /\ Len(Out) < OutCap
    /\ outClosed = 0
    /\ LET gran == tasks[t].granList[tasks[t].i]
       IN  /\ Out' = Append(Out, gran)
           /\ emitted' = [emitted EXCEPT ![t] = Append(@, gran)]
    /\ postCancel' = [postCancel EXCEPT ![t] = IF ctxDone THEN @ + 1 ELSE @]
    /\ tasks' = [tasks EXCEPT
          ![t].i = @ + 1,
          ![t].pc = IF tasks[t].i + 1 > Len(tasks[t].granList) THEN "done" ELSE "check"]
    /\ UNCHANGED <<call, In, inClosed, sent, outClosed, Error, ctxDone, run, req, masResp, firstErr>>

(***************************************************************************)
(* TileIndexer.Run                                                         *)
(***************************************************************************)
\* wg.Wait() left out
NoWgWait == TRUE

\* wg.Wait() returns
WgWait == \A t \in TaskIds : tasks[t].pc = "done"

\* the default case taken whatever the other cases
RunDefaultAlways == TRUE

\* the default case of the select in Run is taken when no other case is ready
RunDefaultReady == ~ctxDone /\ Error = <<>>

\* for geoReq := range p.In: a request is received
RunRecv ==
    /\ Alive
    /\ run.pc = "recv"
    /\ In # <<>>
    /\ req' = Head(In)
    /\ In' = Tail(In)
    /\ run' = [run EXCEPT !.pc = "select", !.deqAfterCancel = ctxDone,
                          !.isEmptyTile = FALSE, !.sel = "none", !.own = <<>>,
                          !.deq = Head(In)]
    /\ UNCHANGED <<call, inClosed, sent, Out, outClosed, Error, ctxDone, tasks, masResp,
                   emitted, postCancel, firstErr>>

\* p.In is closed and drained: the loop ends, the deferred close(p.Out) runs
RunInClosed ==
    /\ Alive
    /\ run.pc = "recv"
    /\ In = <<>>
    /\ inClosed
    /\ run' = [run EXCEPT !.pc = "done"]
    /\ outClosed' = outClosed + 1
    /\ UNCHANGED <<call, In, inClosed, sent, Out, Error, ctxDone, req, tasks, masResp,
                   emitted, postCancel, firstErr>>

\* case <-p.Context.Done(): sendError; return
RunSelectCtx ==
    /\ Alive
    /\ run.pc = "select"
    /\ ctxDone
    /\ Error' = sendError(Error, CtxErr)
    /\ firstErr' = FirstErrAfter(Error, CtxErr)
    /\ run' = [run EXCEPT !.pc = "done", !.sel = "ctx"]
    /\ outClosed' = outClosed + 1
    /\ UNCHANGED <<call, In, inClosed, sent, Out, ctxDone, req, tasks, masResp,
                   emitted, postCancel>>

\* case err := <-p.Error
RunSelectErr ==
    /\ Alive
    /\ run.pc = "select"
    /\ Error # <<>>
    /\ Error' = Tail(Error)
    /\ run' = [run EXCEPT !.pc = "putback", !.held = <<Head(Error)>>, !.sel = "err"]
    /\ UNCHANGED <<call, In, inClosed, sent, Out, outClosed, ctxDone, req, tasks, masResp,
                   emitted, postCancel, firstErr>>

\* ... p.sendError(err); return
RunPutBack ==
    /\ Alive
    /\ run.pc = "putback"
    /\ Error' = sendError(Error, run.held[1])
    /\ firstErr' = FirstErrAfter(Error, run.held[1])
    /\ run' = [run EXCEPT !.pc = "done", !.held = <<>>]
    /\ outClosed' = outClosed + 1
    /\ UNCHANGED <<call, In, inClosed, sent, Out, ctxDone, req, tasks, masResp,
                   emitted, postCancel>>

\* default: the request is processed up to wg.Wait()
RunDefault ==
    /\ Alive
    /\ run.pc = "select"
    /\ RunDefaultReady
    /\ IF Len(TrimSpace(req.Collection)) = 0
       THEN /\ run' = [run EXCEPT !.pc = "sendEmpty", !.sel = "default"]
            /\ UNCHANGED <<req, tasks, emitted, postCancel>>
       ELSE \E geoReq \in {WithNameSpaceDefault(WithTimeWindow(req))} :
            \E qs \in {RequestQueries(geoReq)} :
                /\ req' = geoReq
                /\ IF HasSpatialExtent(geoReq) /\ IsInvalidClip(ClippedBBox(geoReq))
                   THEN /\ run' = [run EXCEPT !.pc = "sendEmpty", !.sel = "default"]
                        /\ UNCHANGED <<tasks, emitted, postCancel>>
                   ELSE /\ run' = [run EXCEPT !.pc = "wait", !.sel = "default",
                                              !.isEmptyTile = IsEmptyTileReq(geoReq)]
                        /\ tasks' = [t \in 1..Len(qs) |-> NewTask(qs[t])]
                        /\ emitted' = [t \in 1..Len(qs) |-> <<>>]
                        /\ postCancel' = [t \in 1..Len(qs) |-> 0]
    /\ UNCHANGED <<call, In, inClosed, sent, Out, outClosed, Error, ctxDone, masResp, firstErr>>

\* p.Out <- empty-tile granule; return
RunSendEmpty ==
    /\ Alive
    /\ run.pc = "sendEmpty"
    /\ Len(Out) < OutCap
    /\ Out' = Append(Out, EmptyTileGranule(req))
    /\ run' = [run EXCEPT !.pc = "done", !.sentEmpty = TRUE,
                          !.own = Append(@, EmptyTileGranule(req))]
    /\ outClosed' = outClosed + 1
    /\ UNCHANGED <<call, In, inClosed, sent, Error, ctxDone, req, tasks, masResp,
                   emitted, postCancel, firstErr>>

\* wg.Wait() returns and the loop goes on to the next request; the finished
\* tasks and the request go out of scope
RunWait ==
    /\ Alive
    /\ run.pc = "wait"
    /\ WgWait
    /\ run' = [run EXCEPT !.pc = "recv", !.deq = BaseReq]
    /\ LET live == {t \in TaskIds : tasks[t].pc # "done"}
       IN  /\ tasks' = IF live = {} THEN <<>> ELSE tasks
           /\ emitted' = IF live = {} THEN <<>> ELSE emitted
           /\ postCancel' = IF live = {} THEN <<>> ELSE postCancel
    /\ req' = BaseReq
    /\ UNCHANGED <<call, In, inClosed, sent, Out, outClosed, Error, ctxDone, masResp, firstErr>>

(***************************************************************************)
(* The environment: producer of p.In, consumer of p.Out, the context       *)
(***************************************************************************)
Produce(reqs) ==
    /\ Alive
    /\ ~inClosed
    /\ sent < MaxReq
    /\ Len(In) < InCap
    /\ \E r \in reqs : In' = Append(In, r)
    /\ sent' = sent + 1
    /\ UNCHANGED <<call, inClosed, Out, outClosed, Error, ctxDone, run, req, tasks, masResp,
                   emitted, postCancel, firstErr>>

CloseIn ==
    /\ Alive
    /\ ~inClosed
    /\ inClosed' = TRUE
    /\ UNCHANGED <<call, In, sent, Out, outClosed, Error, ctxDone, run, req, tasks, masResp,
                   emitted, postCancel, firstErr>>

Cancel ==
    /\ Alive
    /\ ~ctxDone
    /\ ctxDone' = TRUE
    /\ UNCHANGED <<call, In, inClosed, sent, Out, outClosed, Error, run, req, tasks, masResp,
                   emitted, postCancel, firstErr>>

Consume ==
    /\ Alive
    /\ Out # <<>>
    /\ Out' = Tail(Out)
    /\ UNCHANGED <<call, In, inClosed, sent, outClosed, Error, ctxDone, run, req, tasks, masResp,
                   emitted, postCancel, firstErr>>

(***************************************************************************)
(* Specification of the pipeline: producer, Run, its tasks, consumer       *)
(***************************************************************************)
Init ==
    /\ In = <<>>
    /\ inClosed = FALSE
    /\ sent = 0
    /\ Out = <<>>
    /\ outClosed = 0
    /\ Error = <<>>
    /\ ctxDone = FALSE
    /\ run = [pc |-> "recv", held |-> <<>>, deqAfterCancel |-> FALSE,
              isEmptyTile |-> FALSE, sentEmpty |-> FALSE, sel |-> "none", own |-> <<>>,
              deq |-> BaseReq]
    /\ req = BaseReq
    /\ tasks = <<>>
    /\ masResp = [fixed |-> FALSE, md |-> NoResp]
    /\ emitted = <<>>
    /\ postCancel = <<>>
    /\ firstErr = Nil
    /\ call = NoCall

NextOf(reqs) ==
    \/ \E t \in TaskIds : HttpFail(t, Responses)
    \/ \E t \in TaskIds : HttpOk(t, Responses)
    \/ \E t \in TaskIds : SendSentinel(t)
    \/ \E t \in TaskIds : SelectStep(t)
    \/ \E t \in TaskIds : ExpandStep(t)
    \/ \E t \in TaskIds : CheckCtx(t)
    \/ \E t \in TaskIds : CheckErr(t)
    \/ \E t \in TaskIds : PutBack(t)
    \/ \E t \in TaskIds : CheckDefault(t)
    \/ \E t \in TaskIds : SendGranule(t)
    \/ RunRecv
    \/ RunInClosed
    \/ RunSelectCtx
    \/ RunSelectErr
    \/ RunPutBack
    \/ RunDefault
    \/ RunSendEmpty
    \/ RunWait
    \/ Produce(reqs)
    \/ CloseIn
    \/ Cancel
    \/ Consume

Next == NextOf(Requests)

Spec == Init /\ [][Next]_vars

(***************************************************************************)
(* The pipeline under fair scheduling: a goroutine that can take a step    *)
(* eventually takes one, every query to the metadata service returns, the  *)
(* consumer keeps receiving from p.Out and the producer, which owns p.In,  *)
(* closes it when it is done                                               *)
(***************************************************************************)
TaskStep ==
    \/ \E t \in TaskIds : HttpFail(t, Responses)
    \/ \E t \in TaskIds : HttpOk(t, Responses)
    \/ \E t \in TaskIds : SendSentinel(t)
    \/ \E t \in TaskIds : SelectStep(t)
    \/ \E t \in TaskIds : ExpandStep(t)
    \/ \E t \in TaskIds : CheckCtx(t)
    \/ \E t \in TaskIds : CheckErr(t)
    \/ \E t \in TaskIds : PutBack(t)
    \/ \E t \in TaskIds : CheckDefault(t)
    \/ \E t \in TaskIds : SendGranule(t)

RunStep ==
    \/ RunRecv
    \/ RunInClosed
    \/ RunSelectCtx
    \/ RunSelectErr
    \/ RunPutBack
    \/ RunDefault
    \/ RunSendEmpty
    \/ RunWait

Fairness ==
    /\ WF_vars(TaskStep)
    /\ WF_vars(RunStep)
    /\ WF_vars(Consume)
    /\ WF_vars(CloseIn)

\* the requests of the fair model: blank collection, main query with a mask
\* query (two URL tasks), bounding box outside the spatial extent
FairRequests ==
    { [BaseReq EXCEPT !.Collection = " "],
      [BaseReq EXCEPT !.Mask = MaskM],
      [BaseReq EXCEPT !.BBox = <<20, 20, 30, 30>>, !.SpatialExtent = <<0, 0, 10, 10>>,
                      !.Mask = MaskM] }

NextFair == NextOf(FairRequests)

SpecFair == Init /\ [][NextFair]_vars /\ Fairness

(***************************************************************************)
(* Specification of the selection: Run has started one URLIndexGet task    *)
(* for a request; another stage may already have put an error on p.Error   *)
(***************************************************************************)
OtherStageErr == <<"other stage", 0>>

InitTasks(n, reqs, resps) ==
    /\ In = <<>>
    /\ inClosed = TRUE
    /\ sent = 1
    /\ Out = <<>>
    /\ outClosed = 0
    /\ ctxDone = FALSE
    /\ req \in reqs
    /\ run = [pc |-> "wait", held |-> <<>>, deqAfterCancel |-> FALSE,
              isEmptyTile |-> IsEmptyTileReq(req), sentEmpty |-> FALSE,
              sel |-> "default", own |-> <<>>, deq |-> req]
    /\ tasks = [t \in 1..n |->
                  NewTask([kind |-> "main",
                           url |-> getIndexerURL(req, JoinedNameSpaces(req),
                                                 MainBBoxWkt(req), req.CRS)])]
    /\ \E r \in resps : masResp = [fixed |-> TRUE, md |-> r]
    /\ emitted = [t \in 1..n |-> <<>>]
    /\ postCancel = [t \in 1..n |-> 0]
    /\ call = NoCall

InitSel ==
    /\ InitTasks(1, SelRequests, SelResponses)
    /\ \/ Error = <<>> /\ firstErr = Nil
       \/ Error = <<OtherStageErr>> /\ firstErr = Some(OtherStageErr)

NextSel ==
    \/ \E t \in TaskIds : HttpFail(t, SelResponses)
    \/ \E t \in TaskIds : HttpOk(t, SelResponses)
    \/ \E t \in TaskIds : SendSentinel(t)
    \/ \E t \in TaskIds : SelectStep(t)
    \/ \E t \in TaskIds : ExpandStep(t)
    \/ \E t \in TaskIds : CheckCtx(t)
    \/ \E t \in TaskIds : CheckErr(t)
    \/ \E t \in TaskIds : PutBack(t)
    \/ \E t \in TaskIds : CheckDefault(t)
    \/ \E t \in TaskIds : SendGranule(t)
    \/ RunWait
    \/ RunInClosed
    \/ Cancel
    \/ Consume

SpecSel == InitSel /\ [][NextSel]_vars

(***************************************************************************)
(* Specification of two runs of URLIndexGet on the same request and the    *)
(* same metadata response                                                  *)
(***************************************************************************)
TwiceRequests ==
    { r \in SelRequests : \A n \in DOMAIN r.Axes :
         Len(r.Axes[n].InValues) > 0 /\ r.Axes[n].Aggregate = 0 }

TwiceResponses ==
    { FailResp("getFail") } \cup { OkResp(<<d>>) : d \in SelDatasets(1) }

InitTwice ==
    /\ InitTasks(2, TwiceRequests, TwiceResponses)
    /\ \/ Error = <<>> /\ firstErr = Nil
       \/ Error = <<OtherStageErr>> /\ firstErr = Some(OtherStageErr)

SpecTwice == InitTwice /\ [][NextSel]_vars

(***************************************************************************)
(* Specification of one pass of Run over a request it has received: the    *)
(* queries it starts, or the empty tile it sends                           *)
(***************************************************************************)
\* requests with and without a spatial extent, tile sizes that divide and do
\* not divide the 256 cells, with and without a query limit, a resolution
\* limit and a mask; the sides of the boxes are multiples of 256
SubDivRequests ==
    { [BaseReq EXCEPT !.BBox = b, !.SpatialExtent = e, !.IndexTileXSize = tx,
                      !.IndexTileYSize = ty, !.QueryLimit = ql, !.IndexResLimit = rl,
                      !.Mask = m] :
        b \in {<<0, 0, 512, 512>>, <<0, 0, 1024, 512>>, <<256, 0, 768, 256>>},
        e \in {<<>>, <<0, 0, 1024, 1024>>, <<256, 0, 1024, 1024>>, <<2048, 2048, 4096, 4096>>},
        tx \in {0, 128, 100},
        ty \in {0, 128},
        ql \in {0, 5},
        rl \in {0, 2},
        m \in {Nil, MaskM} }

InitSubDiv ==
    /\ In = <<>>
    /\ inClosed = TRUE
    /\ sent = 1
    /\ Out = <<>>
    /\ outClosed = 0
    /\ Error = <<>>
    /\ ctxDone = FALSE
    /\ req \in SubDivRequests
    /\ run = [pc |-> "select", held |-> <<>>, deqAfterCancel |-> FALSE,
              isEmptyTile |-> FALSE, sentEmpty |-> FALSE, sel |-> "none", own |-> <<>>,
              deq |-> req]
    /\ tasks = <<>>
    /\ masResp = [fixed |-> FALSE, md |-> NoResp]
    /\ emitted = <<>>
    /\ postCancel = <<>>
    /\ firstErr = Nil
    /\ call = NoCall

NextSubDiv ==
    \/ RunDefault
    \/ RunSendEmpty

SpecSubDiv == InitSubDiv /\ [][NextSubDiv]_vars

(***************************************************************************)
(* Specification of one call of a selection function on its own: the axis  *)
(* of a dataset and the axis selectors of a request are drawn from bounded *)
(* sets, URLIndexGet's choice between the two functions is kept            *)
(***************************************************************************)
\* bounds of the calls
MaxParams == 8
MaxSels == 2

\* the pipeline is not running
PipelineIdle ==
    /\ In = <<>>
    /\ inClosed = FALSE
    /\ sent = 0
    /\ Out = <<>>
    /\ outClosed = 0
    /\ Error = <<>>
    /\ ctxDone = FALSE
    /\ run = [pc |-> "recv", held |-> <<>>, deqAfterCancel |-> FALSE,
              isEmptyTile |-> FALSE, sentEmpty |-> FALSE, sel |-> "none", own |-> <<>>,
              deq |-> BaseReq]
    /\ req = BaseReq
    /\ tasks = <<>>
    /\ masResp = [fixed |-> FALSE, md |-> NoResp]
    /\ emitted = <<>>
    /\ postCancel = <<>>
    /\ firstErr = Nil

\* the lists of at most n elements of S
RECURSIVE ListsUpTo(_, _)
ListsUpTo(S, n) ==
    IF n = 0 THEN {<<>>}
    ELSE LET shorter == ListsUpTo(S, n - 1)
         IN  shorter \cup {Append(l, x) : l \in {m \in shorter : Len(m) = n - 1}, x \in S}

\* params of an enum axis: increasing lists of every length up to MaxParams,
\* a list with a repeated value, two lists that are not monotonic
CallParams ==
    {[i \in 1..n |-> 10 * i] : n \in 0..MaxParams}
    \cup {<<10, 10, 20>>, <<30, 10, 20>>, <<20, 40, 10>>}

CallAxes == {Axis("level", ps, 1, "enum") : ps \in CallParams}

\* index selectors: points (in range, past the end, without a start), ranges
\* (with a step, overlapping, defaulted, past the end, start after end, step
\* below 1), the selector of everything
CallIdxSelectors ==
    {IdxSelector(FALSE, FALSE, Some(0), Nil, Nil),
     IdxSelector(FALSE, FALSE, Some(2), Nil, Nil),
     IdxSelector(FALSE, FALSE, Some(MaxParams), Nil, Nil),
     IdxSelector(FALSE, FALSE, Nil, Nil, Nil),
     IdxSelector(TRUE, FALSE, Some(0), Some(6), Some(2)),
     IdxSelector(TRUE, FALSE, Some(1), Some(2), Nil),
     IdxSelector(TRUE, FALSE, Nil, Nil, Nil),
     IdxSelector(TRUE, FALSE, Some(0), Some(MaxParams), Nil),
     IdxSelector(TRUE, FALSE, Some(2), Some(1), Nil),
     IdxSelector(TRUE, FALSE, Some(0), Some(1), Some(0)),
     IdxSelector(FALSE, FALSE, Some(-1), Nil, Nil),
     IdxSelector(TRUE, FALSE, Some(-1), Some(1), Nil),
     IdxSelector(FALSE, TRUE, Nil, Nil, Nil)}

\* selector values and interval ends of a request axis
CallValues == {5, 10, 14, 15, 20, 26, 30, 90}

CallTileAxes ==
    {TileAxis(Nil, Nil, <<>>, sels, 0, 0) :
        sels \in ListsUpTo(CallIdxSelectors, MaxSels) \ {<<>>}}
    \cup {TileAxis(Nil, Nil, vs, <<>>, 0, 0) : vs \in ListsUpTo(CallValues, MaxSels)}
    \cup {TileAxis(Some(s), e, <<>>, <<>>, 0, 0) :
            s \in CallValues, e \in {Nil} \cup {Some(v) : v \in CallValues}}

\* the dataset of the axis
CallDataset(axis) == Dataset("f", "a", TimeStampsOf(1, NumTimes), <<axis>>)

\* a call on a default-grid axis: the timestamps of its dataset, the time
\* window of the request (the start is set: getIndexerURL has formatted it),
\* no selectors or an index selector on the axis
CallTimeStamps == {<<>>, <<1500>>, <<500, 1500, 2500>>, <<1000, 2000>>, <<1000, 1500, 2000>>}

CallWindows ==
    {[BaseReq EXCEPT !.StartTime = Some(s), !.EndTime = e] :
        s \in {1000, 1500, 2000}, e \in {Nil, Some(1000), Some(1500), Some(2000), Some(2500)}}

DefaultGridCalls ==
    {[pc |-> "args", fn |-> "", axis |-> Axis("time", <<>>, 1, "default"), tileAxis |-> ta,
      tileAxis0 |-> ta, geoReq |-> w,
      ds |-> Dataset("f", "a", ts, <<Axis("time", <<>>, 1, "default")>>),
      res |-> SelRes(FALSE, "", <<>>, <<>>)] :
        ta \in {TileAxis(Nil, Nil, <<>>, <<>>, 0, 0),
                TileAxis(Nil, Nil, <<>>, <<IdxSelector(FALSE, FALSE, Some(0), Nil, Nil)>>, 0, 0)},
        w \in CallWindows, ts \in CallTimeStamps}

InitAxisCall ==
    /\ PipelineIdle
    /\ call \in {[pc |-> "args", fn |-> "", axis |-> a, tileAxis |-> ta,
                  tileAxis0 |-> ta, geoReq |-> BaseReq, ds |-> CallDataset(a),
                  res |-> SelRes(FALSE, "", <<>>, <<>>)] :
                    a \in CallAxes, ta \in CallTileAxes}
                \cup DefaultGridCalls

\* outRange, selErr = doSelectionByIndices(axis, tileAxis)
CallSelectionByIndices ==
    /\ call.pc = "args"
    /\ Len(call.tileAxis.IdxSelectors) > 0
    /\ call' = [call EXCEPT !.pc = "done", !.fn = "doSelectionByIndices",
                            !.res = doSelectionByIndices(call.axis, call.tileAxis)]
    /\ UNCHANGED <<In, inClosed, sent, Out, outClosed, Error, ctxDone, run, req, tasks,
                   masResp, emitted, postCancel, firstErr>>

\* outRange, selErr = doSelectionByRange(axis, tileAxis, geoReq, ds)
CallSelectionByRange ==
    /\ call.pc = "args"
    /\ Len(call.tileAxis.IdxSelectors) = 0
    /\ call' = [call EXCEPT !.pc = "done", !.fn = "doSelectionByRange",
                            !.tileAxis = TileAxisAfterRange(call.axis, call.tileAxis),
                            !.res = doSelectionByRange(call.axis, call.tileAxis,
                                                      call.geoReq, call.ds)]
    /\ UNCHANGED <<In, inClosed, sent, Out, outClosed, Error, ctxDone, run, req, tasks,
                   masResp, emitted, postCancel, firstErr>>

NextAxisCall ==
    \/ CallSelectionByIndices
    \/ CallSelectionByRange

SpecAxisCall == InitAxisCall /\ [][NextAxisCall]_vars

(***************************************************************************)
(* scaleNew on the integer raster types, one call on its own               *)
(***************************************************************************)
\* bound of the calls: samples of a raster
MaxPixels == 2

\* the integer element types: SignedByteRaster, ByteRaster, Int16Raster,
\* UInt16Raster
RasterTypes ==
    {[name |-> "SignedByte", bits |-> 8, signed |-> TRUE],
     [name |-> "Byte", bits |-> 8, signed |-> FALSE],
     [name |-> "Int16", bits |-> 16, signed |-> TRUE],
     [name |-> "UInt16", bits |-> 16, signed |-> FALSE]}

\* x as a value of the element type ty: arithmetic wraps at the type's width
WrapInt(x, ty) ==
    LET m == 2 ^ ty.bits
        u == x % m
    IN  IF ty.signed /\ u >= m \div 2 THEN u - m ELSE u

\* Go's integer quotient: truncated towards zero (b is not 0)
TruncDiv(a, b) ==
    IF (a >= 0) = (b >= 0) THEN Abs(a) \div Abs(b) ELSE -(Abs(a) \div Abs(b))

\* the scan for minVal and maxVal: samples equal to noData are skipped, the
\* two are set from the sample only at i == 0 and compared otherwise
RECURSIVE ScanMinMax(_, _, _, _, _)
ScanMinMax(data, i, noData, minVal, maxVal) ==
    IF i > Len(data) THEN <<minVal, maxVal>>
    ELSE IF data[i] = noData THEN ScanMinMax(data, i + 1, noData, minVal, maxVal)
    ELSE IF i = 1 THEN ScanMinMax(data, i + 1, noData, data[i], data[i])
    ELSE ScanMinMax(data, i + 1, noData, Min2(minVal, data[i]), Max2(maxVal, data[i]))

\* offset and clip as the scaling loop uses them: from params, or from the
\* scan when both are 0; maxVal += 0.1 followed by the conversion to the
\* element type truncates towards zero
ScaleDomain(r, params) ==
    IF params.Clip = 0 /\ params.Offset = 0
    THEN LET mm == ScanMinMax(r.Data, 1, r.NoData, 0, 0)
         IN  [offset |-> mm[1],
              clip |-> IF mm[1] = mm[2] /\ mm[2] < 0 THEN mm[2] + 1 ELSE mm[2]]
    ELSE [offset |-> WrapInt(params.Offset, r.type), clip |-> WrapInt(params.Clip, r.type)]

\* uint8(math.Floor(float64(x))): a value outside 0..255 converts to a value
\* that depends on the build: the low byte, or the nearest bound
ToUint8(x, conv) ==
    IF x \in 0..255 THEN x
    ELSE IF conv = "wrap" THEN x % 256
    ELSE IF x < 0 THEN 0 ELSE 255

\* one sample: 0xFF for noData, -1 for a division by zero
ScaleSample(ty, value, noData, offset, clip, conv) ==
    IF value = noData THEN 255
    ELSE LET v == IF value > clip THEN clip ELSE value
             trange == WrapInt(clip - offset, ty)
             stepsM1 == WrapInt(WrapInt(256, ty) - 1, ty)
         IN  IF trange = 0 THEN -1
             ELSE ToUint8(WrapInt(WrapInt(TruncDiv(WrapInt(v - clip, ty), trange), ty)
                                  * stepsM1, ty), conv)

\* the ByteRaster data returned, or a run-time panic (integer divide by zero)
scaleNew(r, params, conv) ==
    LET dom == ScaleDomain(r, params)
        out == [i \in 1..Len(r.Data) |->
                  ScaleSample(r.type, r.Data[i], r.NoData, dom.offset, dom.clip, conv)]
    IN  IF \E i \in 1..Len(out) : out[i] = -1
        THEN [panic |-> TRUE, Data |-> <<>>]
        ELSE [panic |-> FALSE, Data |-> out]

\* sample values and no-data values per element type, rasters of one to
\* MaxPixels samples
ScaleSamples(ty) ==
    IF ty.signed THEN {-10, -5, 0, 5, 100, 120} ELSE {0, 5, 100, 199, 200, 250}

ScaleRasters ==
    UNION {{[type |-> ty, NoData |-> nd, Data |-> d] :
              nd \in (IF ty.signed THEN {-1, 0} ELSE {0, 255}),
              d \in ListsUpTo(ScaleSamples(ty), MaxPixels) \ {<<>>}} :
           ty \in RasterTypes}

\* ScaleParams: derived from the data, explicit domains, an empty domain
ScaleParamsChoices ==
    {[Offset |-> 0, Clip |-> 0], [Offset |-> 0, Clip |-> 100],
     [Offset |-> 5, Clip |-> 200], [Offset |-> 5, Clip |-> 5]}

InitScale ==
    /\ PipelineIdle
    /\ call \in {[pc |-> "args", fn |-> "", raster |-> r, params |-> p,
                  res |-> [panic |-> FALSE, Data |-> <<>>]] :
                    r \in ScaleRasters, p \in ScaleParamsChoices}

\* br, err := scaleNew(r, params)
CallScaleNew ==
    /\ call.pc = "args"
    /\ \E conv \in {"wrap", "saturate"} :
          call' = [call EXCEPT !.pc = "done", !.fn = "scaleNew",
                               !.res = scaleNew(call.raster, call.params, conv)]
    /\ UNCHANGED <<In, inClosed, sent, Out, outClosed, Error, ctxDone, run, req, tasks,
                   masResp, emitted, postCancel, firstErr>>

NextScale == CallScaleNew

SpecScale == InitScale /\ [][NextScale]_vars

(***************************************************************************)
(* ParseBandExpressions followed by CheckBandExpressionsComplexity. A band *)
(* text is a sequence of lexemes: names, numbers, "+", "=", " ".           *)
(***************************************************************************)
\* bound of the calls: band texts of a set
MaxBands == 2

\* strings.Split(bandRaw, "="): cur is the part being read
RECURSIVE SplitEq(_, _)
SplitEq(text, cur) ==
    IF text = <<>> THEN <<cur>>
    ELSE IF text[1] = "=" THEN <<cur>> \o SplitEq(Tail(text), <<>>)
    ELSE SplitEq(Tail(text), Append(cur, text[1]))

\* strings.TrimSpace on a sequence of lexemes
RECURSIVE TrimSpaces(_)
TrimSpaces(p) ==
    IF p = <<>> THEN p
    ELSE IF p[1] = " " THEN TrimSpaces(Tail(p))
    ELSE IF p[Len(p)] = " " THEN TrimSpaces(SubSeq(p, 1, Len(p) - 1))
    ELSE p

\* the tokens of a band: white space separates, "+" is a MODIFIER, a number
\* a NUMERIC, any other lexeme a VARIABLE
RECURSIVE Tokens(_)
Tokens(band) ==
    IF band = <<>> THEN <<>>
    ELSE IF band[1] = " " THEN Tokens(Tail(band))
    ELSE <<[Kind |-> IF band[1] = "+" THEN "MODIFIER"
                     ELSE IF band[1] \in {"1", "2"} THEN "NUMERIC" ELSE "VARIABLE",
            Value |-> band[1]]>> \o Tokens(Tail(band))

\* goeval.NewEvaluableExpression accepts operands separated by operators
IsEvaluable(toks) ==
    /\ Len(toks) % 2 = 1
    /\ \A i \in 1..Len(toks) : (toks[i].Kind = "MODIFIER") = (i % 2 = 0)

\* the names among vs, each once, in order of first occurrence, after seen
RECURSIVE AppendNew(_, _)
AppendNew(seen, vs) ==
    IF vs = <<>> THEN seen
    ELSE AppendNew(IF vs[1] \in Range(seen) THEN seen ELSE Append(seen, vs[1]), Tail(vs))

\* the VARIABLE values of a token list
RECURSIVE VarNames(_)
VarNames(toks) ==
    IF toks = <<>> THEN <<>>
    ELSE (IF toks[1].Kind = "VARIABLE" THEN <<toks[1].Value>> ELSE <<>>) \o VarNames(Tail(toks))

\* the loop over bands of ParseBandExpressions from band ib on
RECURSIVE ParseBands(_, _, _, _)
ParseBands(bands, ib, bandExpr, hasExprAll) ==
    IF ib > Len(bands)
    THEN [err |-> "",
          bandExpr |-> IF hasExprAll THEN bandExpr ELSE [bandExpr EXCEPT !.Expressions = <<>>]]
    ELSE LET raw == SplitEq(bands[ib], <<>>)
             parts == [ip \in 1..Len(raw) |-> TrimSpaces(raw[ip])]
             band == IF Len(parts) = 1 THEN parts[1] ELSE parts[2]
             toks == Tokens(band)
         IN  IF (\E ip \in 1..Len(parts) : Len(parts[ip]) = 0) \/ Len(parts) > 2
             THEN [err |-> "invalid expression", bandExpr |-> bandExpr]
             ELSE IF ~IsEvaluable(toks)
             THEN [err |-> "goeval", bandExpr |-> bandExpr]
             ELSE ParseBands(bands, ib + 1,
                     [bandExpr EXCEPT
                        !.Expressions = Append(@, toks),
                        !.VarList = AppendNew(@, VarNames(toks)),
                        !.ExprVarRef = Append(@, AppendNew(<<>>, VarNames(toks))),
                        !.ExprNames = Append(@, parts[1])],
                     hasExprAll \/ \E i \in 1..Len(toks) : toks[i].Kind # "VARIABLE")

ParseBandExpressions(bands) ==
    ParseBands(bands, 1,
               [ExprText |-> bands, Expressions |-> <<>>, VarList |-> <<>>,
                ExprNames |-> <<>>, ExprVarRef |-> <<>>], FALSE)

\* all tokens of the expressions, in order
RECURSIVE AllTokens(_)
AllTokens(exprs) == IF exprs = <<>> THEN <<>> ELSE exprs[1] \o AllTokens(Tail(exprs))

\* the token is refused by criteria.TokenACL: its kind is mapped to nil, or to
\* a list that holds its value
IsTokenDenied(acl, token) ==
    /\ token.Kind \in DOMAIN acl
    /\ acl[token.Kind].isNil \/ token.Value \in acl[token.Kind].vals

\* the error returned ("" for nil)
CheckBandExpressionsComplexity(bandExpr, criteria) ==
    LET toks == AllTokens(bandExpr.Expressions)
    IN  IF criteria.VariableLookup = {}
        THEN "band math error: user-defined band math is not enabled for this layer"
        ELSE IF Len(bandExpr.Expressions) > criteria.MaxExpressions
        THEN "band math error: Too many expressions"
        ELSE IF Len(bandExpr.VarList) > criteria.MaxVariables
        THEN "band math error: Too many variables"
        ELSE IF Len(toks) > criteria.MaxTokens
        THEN "band math error: Too many tokens"
        ELSE IF \E i \in 1..Len(toks) :
                   toks[i].Kind = "VARIABLE" /\ toks[i].Value \notin criteria.VariableLookup
        THEN "band math error: variable not supported"
        ELSE IF \E i \in 1..Len(toks) : IsTokenDenied(criteria.TokenACL, toks[i])
        THEN "band math error: Operation not supported"
        ELSE ""

\* band texts: bare names, sums, named expressions, padded, malformed
BandTexts ==
    {<<"a">>, <<"x">>, <<"a", "+", "b">>, <<"a", "+", "x">>, <<"a", "+", "1">>,
     <<"n", "=", "a">>, <<"n", " ", "=", " ", "x">>, <<" ", "b", " ">>,
     <<"n", "=">>, <<"n", "=", "a", "=", "b">>, <<"a", "+">>, <<"a", " ", "b">>}

\* addBandMathVariableConstraints: VariableLookup is made of the strings of
\* the list TokenACL["VARIABLE"] and of the available_bands properties of
\* the user_band_math extensions of the layer
addBandMathVariableConstraints(extensions, layerName, criteria) ==
    LET acl == criteria.TokenACL
        fromACL == IF "VARIABLE" \in DOMAIN acl /\ ~acl["VARIABLE"].isNil
                   THEN acl["VARIABLE"].vals ELSE {}
        fromExt == UNION {extensions[k].AvailableBands :
                            k \in {j \in 1..Len(extensions) :
                                      /\ extensions[j].Name = "user_band_math"
                                      /\ extensions[j].Layer = layerName}}
    IN  [criteria EXCEPT !.VariableLookup = fromACL \cup fromExt]

\* config.Extensions: none, band math on the layer L exposing two names, band
\* math on another layer, another extension on the layer
BandExtensions ==
    {<<>>,
     <<[Name |-> "user_band_math", Layer |-> "L", AvailableBands |-> {"a", "b"}]>>,
     <<[Name |-> "user_band_math", Layer |-> "M", AvailableBands |-> {"x"}]>>,
     <<[Name |-> "other", Layer |-> "L", AvailableBands |-> {"x"}]>>}

\* TokenACL of a layer: none, "+" refused, the list of the variable a, every
\* variable refused
BandTokenACLs ==
    {<<>>,
     [k \in {"MODIFIER"} |-> [isNil |-> FALSE, vals |-> {"+"}]],
     [k \in {"VARIABLE"} |-> [isNil |-> FALSE, vals |-> {"a"}]],
     [k \in {"VARIABLE"} |-> [isNil |-> TRUE, vals |-> {}]]}

\* criteria of the layer L as postprocessConfig leaves them: small and large
\* limits, VariableLookup filled by addBandMathVariableConstraints
BandCriteria ==
    {addBandMathVariableConstraints(exts, "L",
        [MaxVariables |-> mv, MaxTokens |-> mt, MaxExpressions |-> MaxBands,
         TokenACL |-> acl, VariableLookup |-> {}]) :
        mv \in {1, 4}, mt \in {2, 8}, exts \in BandExtensions, acl \in BandTokenACLs}

InitExpr ==
    /\ PipelineIdle
    /\ call \in {[pc |-> "args", fn |-> "", bands |-> bs,
                  parsed |-> ParseBandExpressions(<<>>), criteria |-> <<>>, err |-> ""] :
                    bs \in ListsUpTo(BandTexts, MaxBands) \ {<<>>}}

\* bandExpr, err := ParseBandExpressions(bands)
CallParseBandExpressions ==
    /\ call.pc = "args"
    /\ call' = [call EXCEPT !.pc = "parsed", !.fn = "ParseBandExpressions",
                            !.parsed = ParseBandExpressions(call.bands)]
    /\ UNCHANGED <<In, inClosed, sent, Out, outClosed, Error, ctxDone, run, req, tasks,
                   masResp, emitted, postCancel, firstErr>>

\* err = CheckBandExpressionsComplexity(bandExpr, criteria)
CallCheckBandExpressionsComplexity ==
    /\ call.pc = "parsed"
    /\ call.parsed.err = ""
    /\ \E c \in BandCriteria :
          call' = [call EXCEPT !.pc = "checked", !.fn = "CheckBandExpressionsComplexity",
                               !.criteria = c,
                               !.err = CheckBandExpressionsComplexity(call.parsed.bandExpr, c)]
    /\ UNCHANGED <<In, inClosed, sent, Out, outClosed, Error, ctxDone, run, req, tasks,
                   masResp, emitted, postCancel, firstErr>>

NextExpr ==
    \/ CallParseBandExpressions
    \/ CallCheckBandExpressionsComplexity

SpecExpr == InitExpr /\ [][NextExpr]_vars

(***************************************************************************)
(* Config.processFusionTimestamps, one call on its own.  The config map    *)
(* holds one namespace; its layers are named by the input layers.  A date  *)
(* string is a number: a positive number is the ISOFormat string of that   *)
(* instant, a negative number a string that time.Parse rejects; 0 in       *)
(* EffectiveStartDate / EffectiveEndDate is the empty string.              *)
(***************************************************************************)
\* bound of the calls: layers of the config
MaxLayers == 2

LayerNames == SubSeq(<<"A", "B", "C", "D">>, 1, MaxLayers)

\* the nesting of calls at which the goroutine stack is exhausted, scaled to
\* the configs of the model: a chain of calls longer than the layers has two
\* calls for one layer, and a layer does not change while a call for it is
\* open, so the chain repeats without end
StackLimit == MaxLayers

Layer(name, dataSource, inputLayers, styleInputLayers, dates) ==
    [Name |-> name, DataSource |-> dataSource, InputLayers |-> inputLayers,
     StyleInputLayers |-> styleInputLayers, Dates |-> dates,
     EffectiveStartDate |-> 0, EffectiveEndDate |-> 0]

\* GetLayerIndex: the first layer of that name, 0 for the error "not found"
GetLayerIndex(layers, name) ==
    IF \E k \in 1..Len(layers) : layers[k].Name = name
    THEN CHOOSE k \in 1..Len(layers) :
            /\ layers[k].Name = name
            /\ \A j \in 1..(k - 1) : layers[j].Name # name
    ELSE 0

\* StyleInputLayers is Styles[0].InputLayers, empty for a layer without styles
hasBlendedService(layer) ==
    \/ Len(layer.InputLayers) > 0 /\ layer.DataSource = ""
    \/ Len(layer.StyleInputLayers) > 0

\* the input layers processFusionTimestamps reads
FusionInputLayers(layer) ==
    IF Len(layer.InputLayers) > 0 THEN layer.InputLayers ELSE layer.StyleInputLayers

\* the loop "if _, found := tsLookup[dt]; !found": the dates not yet in
\* timestamps are appended
RECURSIVE MergeDates(_, _)
MergeDates(timestamps, dates) ==
    IF dates = <<>> THEN timestamps
    ELSE MergeDates(IF dates[1] \in Range(timestamps) THEN timestamps
                    ELSE Append(timestamps, dates[1]), Tail(dates))

\* time.Parse(ISOFormat, dt) with the error dropped: the zero time for a
\* string that does not parse
ParseDate(dt) == IF dt < 0 THEN 0 ELSE dt

\* the dates left in the order gathered
SortDatesNone(ts) == ts

\* one step of the insertion sort: dt moves left while it is before its
\* neighbour
RECURSIVE InsertDate(_, _)
InsertDate(sorted, dt) ==
    IF sorted = <<>> THEN <<dt>>
    ELSE IF ParseDate(dt) < ParseDate(sorted[Len(sorted)])
    THEN Append(InsertDate(SubSeq(sorted, 1, Len(sorted) - 1), dt), sorted[Len(sorted)])
    ELSE Append(sorted, dt)

\* sort.Slice with less = t1.Before(t2): an insertion sort below 12 elements
RECURSIVE SortDates(_)
SortDates(ts) ==
    IF ts = <<>> THEN <<>>
    ELSE InsertDate(SortDates(SubSeq(ts, 1, Len(ts) - 1)), ts[Len(ts)])

FusionRes(err, overflow, layers, timestamps) ==
    [err |-> err, overflow |-> overflow, layers |-> layers, timestamps |-> timestamps]

\* processFusionTimestamps(i, configMap) with depth nested calls open, and
\* its loop over the input layers from the k-th on
RECURSIVE processFusionTimestamps(_, _, _)
RECURSIVE FusionRefLoop(_, _, _, _, _, _)
FusionRefLoop(layers, i, refs, k, timestamps, depth) ==
    IF k > Len(refs) THEN FusionRes(FALSE, FALSE, layers, timestamps)
    ELSE LET layerIdx == GetLayerIndex(layers, refs[k])
         IN  IF layerIdx = 0 THEN FusionRes(TRUE, FALSE, layers, timestamps)
             ELSE LET layer == layers[layerIdx]
                      nested == /\ hasBlendedService(layer)
                                /\ Len(layer.Dates) = 0
                                /\ layer.EffectiveStartDate = 0
                                /\ layer.EffectiveEndDate = 0
                  IN  IF nested /\ depth >= StackLimit
                      THEN FusionRes(FALSE, TRUE, layers, timestamps)
                      ELSE LET sub == IF nested
                                      THEN processFusionTimestamps(layers, layerIdx, depth + 1)
                                      ELSE FusionRes(FALSE, FALSE, layers, <<>>)
                           IN  IF sub.err \/ sub.overflow
                               THEN FusionRes(sub.err, sub.overflow, sub.layers, timestamps)
                               ELSE FusionRefLoop(sub.layers, i, refs, k + 1,
                                                  MergeDates(timestamps,
                                                             sub.layers[layerIdx].Dates),
                                                  depth)

processFusionTimestamps(layers, i, depth) ==
    LET inputLayers == FusionInputLayers(layers[i])
    IN  IF Len(inputLayers) = 0 THEN FusionRes(FALSE, FALSE, layers, <<>>)
        ELSE LET r == FusionRefLoop(layers, i, inputLayers, 1,
                                    MergeDates(<<>>, layers[i].Dates), depth)
                 timestamps == SortDates(r.timestamps)
             IN  IF r.err \/ r.overflow \/ Len(timestamps) = 0 THEN r
                 ELSE FusionRes(FALSE, FALSE,
                                [r.layers EXCEPT ![i].Dates = timestamps,
                                                 ![i].EffectiveStartDate = timestamps[1],
                                                 ![i].EffectiveEndDate =
                                                     timestamps[Len(timestamps)]],
                                timestamps)

\* dates configured for a layer: none, unsorted with a repeated date, one
\* date, a date that does not parse
FusionDates == {<<>>, <<20, 10, 20>>, <<30>>, <<20, -1>>}

\* references to layers: one layer of the config, the first two, a name that
\* is not a layer
FusionRefs ==
    {<<LayerNames[k]>> : k \in 1..MaxLayers} \cup {<<"A", "B">>, <<"Z">>}

\* the layers of a name: with a data source, blended over input layers, with
\* a data source and input layers, blended by its first style
FusionLayers(name) ==
    {Layer(name, "ds", <<>>, <<>>, d) : d \in FusionDates}
    \cup {Layer(name, "", refs, <<>>, d) : refs \in FusionRefs, d \in FusionDates}
    \cup {Layer(name, "ds", refs, <<>>, d) : refs \in FusionRefs, d \in {<<>>, <<30>>}}
    \cup {Layer(name, "ds", <<>>, refs, d) : refs \in FusionRefs, d \in {<<>>, <<30>>}}

FusionConfigs ==
    {ls \in [1..MaxLayers -> UNION {FusionLayers(LayerNames[k]) : k \in 1..MaxLayers}] :
        \A k \in 1..MaxLayers : ls[k].Name = LayerNames[k]}

InitFusion ==
    /\ PipelineIdle
    /\ call \in {[pc |-> "args", fn |-> "", layers |-> ls, i |-> i,
                  res |-> FusionRes(FALSE, FALSE, <<>>, <<>>)] :
                    ls \in FusionConfigs, i \in 1..MaxLayers}

\* err := config.processFusionTimestamps(i, configMap)
CallProcessFusionTimestamps ==
    /\ call.pc = "args"
    /\ call' = [call EXCEPT !.pc = "done", !.fn = "processFusionTimestamps",
                            !.res = processFusionTimestamps(call.layers, call.i, 0)]
    /\ UNCHANGED <<In, inClosed, sent, Out, outClosed, Error, ctxDone, run, req, tasks,
                   masResp, emitted, postCancel, firstErr>>

NextFusion == CallProcessFusionTimestamps

SpecFusion == InitFusion /\ [][NextFusion]_vars

(***************************************************************************)
(* Properties                                                              *)
(***************************************************************************)
\* the tasks whose HTTP GET, body read or JSON decode failed
FailedTasks == {t \in TaskIds : tasks[t].failed}

\* position of the first granule of gl with namespace ns, 0 when there is none
FirstPos(gl, ns) ==
    IF \E q \in 1..Len(gl) : gl[q].NameSpace = ns
    THEN CHOOSE q \in 1..Len(gl) :
            gl[q].NameSpace = ns /\ \A o \in 1..(q - 1) : gl[o].NameSpace # ns
    ELSE 0

\* C1: sendError never blocks, and once an error has been placed on the
\* capacity-1 error channel, the error found on the channel is that first
\* error: no later sendError and no take-and-put-back of checkCancellation
\* leaves a different, later error on it.
C1_FirstErrorRetained ==
    (~IsNil(firstErr) /\ Error # <<>>) => Error[1] = Deref(firstErr)

\* C2: close(p.Out) runs at most once, it runs only when every URL task of
\* the requests dequeued so far has finished, and once p.In is closed p.Out
\* is eventually closed.
C2_InClosedLeadsToOutClosed ==
    /\ [](outClosed <= 1)
    /\ [](outClosed = 1 => \A t \in TaskIds : tasks[t].pc = "done")
    /\ (inClosed ~> (outClosed = 1))

\* C2 witness: p.In was closed and drained without error or cancellation, Run
\* has closed p.Out, and a dataset granule of a dequeued request is still
\* queued on p.Out.
C2_Witness ==
    /\ inClosed /\ In = <<>> /\ sent > 0
    /\ ~ctxDone /\ Error = <<>>
    /\ run.pc = "done" /\ outClosed = 1
    /\ Out # <<>> /\ Out[1].Path # "NULL"

\* C3: no URL task exists for a request dequeued after the cancellation, a
\* task sends after the cancellation at most the one dataset granule whose
\* checkCancellation came before it, and once the context is cancelled p.Out
\* is eventually closed.
C3_CancelStopsIndexer ==
    /\ [](run.deqAfterCancel => TaskIds = {})
    /\ [](\A t \in TaskIds : postCancel[t] <= 1)
    /\ (ctxDone ~> (outClosed = 1))

\* C3 witness: a request was dequeued after the cancellation, Run has
\* returned without starting a task for it and p.Out is closed.
C3_Witness ==
    /\ ctxDone /\ run.deqAfterCancel
    /\ run.pc = "done" /\ outClosed = 1
    /\ TaskIds = {}

\* C4: a task whose HTTP GET, body read or JSON decode failed has offered its
\* error (the channel has held an error since) and sends exactly one granule,
\* the empty-tile sentinel with Path "NULL", the empty-tile namespace,
\* RasterType "Byte" and the Width, Height and BBox of the request.
C4_FailureSendsOneSentinel ==
    \A t \in FailedTasks :
        /\ ~IsNil(firstErr)
        /\ tasks[t].pc \in {"sentinel", "done"}
        /\ tasks[t].pc = "sentinel" => emitted[t] = <<>>
        /\ tasks[t].pc = "done" =>
              /\ Len(emitted[t]) = 1
              /\ emitted[t][1].Path = "NULL"
              /\ emitted[t][1].NameSpace = NS(EmptyTileNS)
              /\ emitted[t][1].NameSpaces = <<NS(EmptyTileNS)>>
              /\ emitted[t][1].RasterType = "Byte"
              /\ emitted[t][1].Width = req.Width
              /\ emitted[t][1].Height = req.Height
              /\ emitted[t][1].BBox = req.BBox

\* C4 witness: the JSON decode of the only task failed, its error is the one
\* on the channel and its sentinel has been sent.
C4_Witness ==
    \E t \in FailedTasks :
        /\ tasks[t].pc = "done"
        /\ Error = <<<<"jsonFail", t>>>>
        /\ Len(emitted[t]) = 1

\* C5: when the HTTP GET of one URL of a request fails, every other URL task
\* of the request that got datasets sends all of its dataset granules (the
\* context is not cancelled).
C5_OtherUrlsEmitAll ==
    \A t \in TaskIds \ FailedTasks :
        (/\ ~ctxDone
         /\ tasks[t].pc = "done"
         /\ FailedTasks # {})
        => emitted[t] = tasks[t].granList \/ tasks[t].granList = <<>>

\* C6: a dataset for which the selection of some requested axis returned
\* outRange=true is marked IsOutRange and no granule is built from it,
\* whatever the selections of the later axes returned.
C6_OutRangeDropsDataset ==
    \A t \in TaskIds : \A k \in 1..Len(tasks[t].dss) :
        (\E i \in 1..Len(tasks[t].dss[k].Axes) : tasks[t].dss[k].Axes[i].SelOutRange)
        => /\ tasks[t].dss[k].IsOutRange
           /\ \A p \in 1..Len(tasks[t].granList) : tasks[t].granList[p].Src.ds # k

\* C7: every dataset granule has BandIdx >= 1 and BandIdx = 1 + the sum over
\* the axes of the dataset of (the parameter index selected for the axis in
\* the granule's combination) x (the first stride of the axis).
C7_BandIdxFormula ==
    \A t \in TaskIds :
        /\ \A p \in 1..Len(tasks[t].granList) :
              LET g == tasks[t].granList[p]
                  ds == tasks[t].dss[g.Src.ds]
              IN  /\ g.BandIdx >= 1
                  /\ g.BandIdx = 1 + SeqSum([i \in 1..Len(ds.Axes) |->
                        ds.Axes[i].SelIdx[g.Src.cnt[i] + 1] * ds.Axes[i].Strides[1]])
        /\ tasks[t].granList # <<>> =>
              emitted[t] = SubSeq(tasks[t].granList, 1, Len(emitted[t]))

\* C7 witness: a granule was sent whose combination selects a later parameter
\* on both of the two axes of its dataset.
C7_Witness ==
    \E t \in TaskIds : \E p \in 1..Len(emitted[t]) :
        /\ emitted[t][p].Path # "NULL"
        /\ Len(emitted[t][p].Src.cnt) = 2
        /\ emitted[t][p].Src.cnt[1] > 0 /\ emitted[t][p].Src.cnt[2] > 0
        /\ emitted[t][p].BandIdx > 2

\* C8: in the NameSpaces list of a granule, of two disaggregated namespaces of
\* the same dataset namespace the one listed first has the smaller first-seen
\* aggregation timestamp (the TimeStamp of its first granule) or, the
\* timestamps being equal, was inserted first.
C8_NameSpacesByAggTimeStamp ==
    \A t \in TaskIds : \A p \in 1..Len(tasks[t].granList) :
        LET gl == tasks[t].granList
            nss == gl[p].NameSpaces
        IN  \A i, j \in 1..Len(nss) :
               (/\ i < j
                /\ nss[i][1] = nss[j][1]
                /\ FirstPos(gl, nss[i]) > 0 /\ FirstPos(gl, nss[j]) > 0)
               => \/ gl[FirstPos(gl, nss[i])].TimeStamp < gl[FirstPos(gl, nss[j])].TimeStamp
                  \/ /\ gl[FirstPos(gl, nss[i])].TimeStamp = gl[FirstPos(gl, nss[j])].TimeStamp
                     /\ FirstPos(gl, nss[i]) < FirstPos(gl, nss[j])

\* C9: two runs of URLIndexGet on the same request and the same metadata
\* response attach the same NameSpaces list to their granules.
C9_SameNameSpacesTwice ==
    \A t, u \in TaskIds :
        (tasks[t].granList # <<>> /\ tasks[u].granList # <<>>)
        => tasks[t].granList[1].NameSpaces = tasks[u].granList[1].NameSpaces

\* C10: all dataset granules sent for one request carry the same NameSpaces
\* list, whichever URL task of the request sent them.
C10_SameNameSpacesAcrossUrls ==
    \A t, u \in TaskIds :
        \A p \in 1..Len(emitted[t]) : \A q \in 1..Len(emitted[u]) :
            (emitted[t][p].Path # "NULL" /\ emitted[u][q].Path # "NULL")
            => emitted[t][p].NameSpaces = emitted[u][q].NameSpaces

\* the collection of the request is empty or blank
BlankCollection(r) == r.Collection \in {"", " "}

\* the granule g is the empty-tile sentinel of the request r
IsSentinelOf(g, r) ==
    /\ g.Path = "NULL"
    /\ g.NameSpace = NS(EmptyTileNS)
    /\ g.NameSpaces = <<NS(EmptyTileNS)>>
    /\ g.RasterType = "Byte"
    /\ g.Width = r.Width /\ g.Height = r.Height
    /\ g.BBox = r.BBox

\* C13 as stated: once Run has finished with a request of blank collection,
\* it has sent exactly one granule, the empty-tile sentinel with the request's
\* Width and Height, has started no URL task and has closed p.Out.
C13_BlankCollectionSentinel ==
    (BlankCollection(req) /\ run.pc = "done") =>
        /\ Len(run.own) = 1 /\ IsSentinelOf(run.own[1], req)
        /\ TaskIds = {}
        /\ outClosed = 1

\* C13: when the select of Run takes its default case for a request of blank
\* collection (the context is not cancelled and no error is waiting on
\* p.Error), Run starts no URL task, sends exactly one granule, the empty-tile
\* sentinel with the request's Width and Height (256 x 256), and returns
\* closing p.Out; when the select takes another case Run sends nothing.
C13_BlankCollectionDefaultCase ==
    BlankCollection(req) =>
        /\ TaskIds = {}
        /\ run.sel = "default" =>
              /\ run.pc \in {"sendEmpty", "done"}
              /\ run.pc = "sendEmpty" => run.own = <<>> /\ outClosed = 0
              /\ run.pc = "done" =>
                    /\ Len(run.own) = 1 /\ IsSentinelOf(run.own[1], req)
                    /\ run.own[1].Width = 256 /\ run.own[1].Height = 256
                    /\ outClosed = 1
        /\ run.sel \in {"ctx", "err"} => run.own = <<>>

C13_Witness ==
    /\ BlankCollection(req) /\ run.sel = "default" /\ run.pc = "done"
    /\ Len(run.own) = 1 /\ outClosed = 1
    /\ \E i \in 1..Len(Out) : Out[i] = run.own[1]

\* a spatial extent is configured and the bounding box of the request, in
\* canonical coordinates, does not intersect it
DisjointExtent(r) ==
    /\ Len(r.SpatialExtent) >= 4
    /\ r.CRS = "EPSG:3857"
    /\ \/ r.BBox[3] < r.SpatialExtent[1] \/ r.SpatialExtent[3] < r.BBox[1]
       \/ r.BBox[4] < r.SpatialExtent[2] \/ r.SpatialExtent[4] < r.BBox[2]

\* C14 as stated: once Run has finished with a request whose bounding box does
\* not intersect the spatial extent, it has sent exactly one empty-tile
\* sentinel and has started no URL task (main, sub-tile or mask).
C14_DisjointExtentSentinel ==
    (~BlankCollection(req) /\ DisjointExtent(req) /\ run.pc = "done") =>
        /\ Len(run.own) = 1 /\ IsSentinelOf(run.own[1], req)
        /\ TaskIds = {}

\* C14: when the select of Run takes its default case for a request whose
\* bounding box does not intersect the configured spatial extent, Run starts
\* no URL task (main, sub-tile or mask), sends exactly one empty-tile sentinel
\* and returns; when the select takes another case Run sends nothing.
C14_DisjointExtentDefaultCase ==
    (~BlankCollection(req) /\ DisjointExtent(req)) =>
        /\ TaskIds = {}
        /\ run.sel = "default" =>
              /\ run.pc \in {"sendEmpty", "done"}
              /\ run.pc = "sendEmpty" => run.own = <<>> /\ outClosed = 0
              /\ run.pc = "done" =>
                    /\ Len(run.own) = 1 /\ IsSentinelOf(run.own[1], req)
                    /\ outClosed = 1
        /\ run.sel \in {"ctx", "err"} => run.own = <<>>

C14_Witness ==
    /\ DisjointExtent(req) /\ ~IsNil(req.Mask) /\ req.BBox = <<20, 20, 30, 30>>
    /\ run.sel = "default" /\ run.pc = "done"
    /\ Len(run.own) = 1 /\ TaskIds = {}

\* the selectors of the axes of a request
Selectors(r) ==
    [n \in DOMAIN r.Axes |->
        [Start |-> r.Axes[n].Start, End |-> r.Axes[n].End,
         InValues |-> r.Axes[n].InValues, IdxSelectors |-> r.Axes[n].IdxSelectors]]

\* C15: while the indexer processes a request, every axis of the request has
\* the Start, End, InValues and IdxSelectors it had when the request was
\* received, whatever selections the URL tasks have run.
C15_SelectorsImmutable == Selectors(req) = Selectors(run.deq)

\* the params of axis n of a dataset as the index-based selection sees them:
\* a dataset without axes has the default time axis, and the time axis is an
\* enum grid over the timestamps; <<"none">> when the dataset has no axis n
ParamsOf(ds, n) ==
    IF ds.Axes = <<>>
    THEN IF n = "time" THEN <<"params", ds.TimeStamps>> ELSE <<"none">>
    ELSE IF \E i \in 1..Len(ds.Axes) : ds.Axes[i].Name = n
    THEN LET a == ds.Axes[CHOOSE i \in 1..Len(ds.Axes) : ds.Axes[i].Name = n]
         IN  <<"params", IF n = "time" THEN a.Params \o ds.TimeStamps ELSE a.Params>>
    ELSE <<"none">>

\* the request r has index selectors on an axis for which two datasets of the
\* response md have different params
NonHomogeneous(r, md) ==
    \E n \in DOMAIN r.Axes :
        /\ Len(r.Axes[n].IdxSelectors) > 0
        /\ \E i, j \in 1..Len(md.GDALDatasets) :
              /\ ParamsOf(md.GDALDatasets[i], n) # <<"none">>
              /\ ParamsOf(md.GDALDatasets[j], n) # <<"none">>
              /\ ParamsOf(md.GDALDatasets[i], n) # ParamsOf(md.GDALDatasets[j], n)

HomogeneousErr == "index-based selection only supports homogeneous axis across files"

\* C16: when the request has index selectors on an axis and two datasets of
\* the response differ in the params of that axis, the task, once past its
\* selection, has ended with the error "index-based selection only supports
\* homogeneous axis across files" offered to p.Error and has sent no granule.
C16_NonHomogeneousFails ==
    \A t \in TaskIds :
        (/\ masResp.fixed /\ masResp.md.kind = "ok"
         /\ NonHomogeneous(run.deq, masResp.md)
         /\ tasks[t].pc \notin {"get", "select", "panic"}) =>
            /\ tasks[t].pc = "done"
            /\ emitted[t] = <<>> /\ tasks[t].granList = <<>>
            /\ Error # <<>>
            /\ Error[1] \in {OtherStageErr, <<HomogeneousErr, t>>}

\* the call of doSelectionByIndices has returned (false, nil)
IdxCallOk ==
    /\ call.pc = "done" /\ call.fn = "doSelectionByIndices"
    /\ ~call.res.panic /\ call.res.err = "" /\ ~call.res.outRange

\* C17: when doSelectionByIndices returns no error and outRange = false, no
\* parameter index occurs twice in IntersectionIdx.
C17_IndicesUnique ==
    IdxCallOk =>
        \A i, j \in 1..Len(call.res.idx) : i # j => call.res.idx[i] # call.res.idx[j]

\* C18: when doSelectionByIndices returns no error and outRange = false,
\* IntersectionIdx is in ascending order and each IntersectionValues[k] is the
\* parameter at IntersectionIdx[k]; the single selector {start 0, end 6,
\* step 2} on eight params gives the indices 0, 2, 4, 6.
C18_SortedAndPaired ==
    IdxCallOk =>
        /\ \A k \in 2..Len(call.res.idx) : call.res.idx[k - 1] <= call.res.idx[k]
        /\ Len(call.res.vals) = Len(call.res.idx)
        /\ \A k \in 1..Len(call.res.idx) :
              /\ call.res.idx[k] \in 0..(Len(call.axis.Params) - 1)
              /\ call.res.vals[k] = call.axis.Params[call.res.idx[k] + 1]
        /\ (/\ Len(call.axis.Params) = 8
            /\ call.tileAxis0.IdxSelectors =
                  <<IdxSelector(TRUE, FALSE, Some(0), Some(6), Some(2))>>) =>
              call.res.idx = <<0, 2, 4, 6>>

\* the point 2 followed by the stepped range on eight params: gathered as
\* 2, 0, 4, 6 and returned in ascending order with the values paired
C18_Witness ==
    /\ IdxCallOk
    /\ call.tileAxis0.IdxSelectors =
          <<IdxSelector(FALSE, FALSE, Some(2), Nil, Nil),
            IdxSelector(TRUE, FALSE, Some(0), Some(6), Some(2))>>
    /\ Len(call.axis.Params) = 8
    /\ call.res.idx = <<0, 2, 4, 6>>
    /\ call.res.vals = <<10, 30, 50, 70>>

\* the selector values of the call that lie within the smallest and the
\* largest parameter, in the order they were given
RECURSIVE InRangeValues(_, _)
InRangeValues(vs, params) ==
    IF vs = <<>> THEN <<>>
    ELSE (IF \E i, j \in 1..Len(params) : params[i] <= vs[1] /\ vs[1] <= params[j]
          THEN <<vs[1]>> ELSE <<>>) \o InRangeValues(Tail(vs), params)

\* ix (0-based) is the index of a parameter closest to v
IsClosestIdx(params, ix, v) ==
    /\ ix \in 0..(Len(params) - 1)
    /\ \A i \in 1..Len(params) : Abs(params[ix + 1] - v) <= Abs(params[i] - v)

\* the bijections from 1..n onto itself
Bijections(n) == {f \in [1..n -> 1..n] : \A i, j \in 1..n : f[i] = f[j] => i = j}

\* doSelectionByRange has returned from a call with enumerated selector values
\* on an enum axis with params
EnumCallDone ==
    /\ call.pc = "done" /\ call.fn = "doSelectionByRange"
    /\ call.axis.Grid = "enum" /\ Len(call.axis.Params) > 0
    /\ Len(call.tileAxis0.InValues) > 0

\* C19: on an enum axis with enumerated selector values of which at least one
\* is within the params, doSelectionByRange selects one index per in-range
\* value, each the index of a parameter closest to its value; when the params
\* are not monotonic the k-th selection is the first index at the smallest
\* distance from the k-th in-range value.
C19_ClosestPerValue ==
    EnumCallDone =>
        LET params == call.axis.Params
            inv == InRangeValues(call.tileAxis0.InValues, params)
        IN  Len(inv) > 0 =>
              /\ ~call.res.panic /\ call.res.err = "" /\ ~call.res.outRange
              /\ Len(call.res.idx) = Len(inv)
              /\ IF \A i \in 2..Len(params) : params[i - 1] <= params[i]
                 THEN \E f \in Bijections(Len(inv)) :
                         \A k \in 1..Len(inv) : IsClosestIdx(params, call.res.idx[f[k]], inv[k])
                 ELSE \A k \in 1..Len(inv) :
                         /\ IsClosestIdx(params, call.res.idx[k], inv[k])
                         /\ \A i \in 1..call.res.idx[k] :
                               Abs(params[i] - inv[k]) > Abs(params[call.res.idx[k] + 1] - inv[k])

\* doSelectionByRange has returned from a call with an explicit start and end
\* and no enumerated values on an enum axis with params
IntervalCallDone ==
    /\ call.pc = "done" /\ call.fn = "doSelectionByRange"
    /\ call.axis.Grid = "enum" /\ Len(call.axis.Params) > 0
    /\ Len(call.tileAxis0.InValues) = 0
    /\ ~IsNil(call.tileAxis0.Start) /\ ~IsNil(call.tileAxis0.End)

\* the indices (0-based) of the params within [start, end) of the call
IntervalIdx ==
    {i - 1 : i \in {j \in 1..Len(call.axis.Params) :
                      /\ Deref(call.tileAxis0.Start) <= call.axis.Params[j]
                      /\ call.axis.Params[j] < Deref(call.tileAxis0.End)}}

\* C20: on an enum axis with an explicit start and end, doSelectionByRange
\* selects exactly the indices of the params p with start <= p < end, each
\* once, and returns outRange = true when no parameter lies in the interval.
C20_HalfOpenInterval ==
    IntervalCallDone =>
        /\ ~call.res.panic /\ call.res.err = ""
        /\ Range(call.res.idx) = IntervalIdx
        /\ Len(call.res.idx) = Cardinality(IntervalIdx)
        /\ IntervalIdx = {} => call.res.outRange

\* C11: for an integer raster, every byte scaleNew returns is within 0..255,
\* and it is 255 exactly when the sample is the no-data value or lies outside
\* the scale domain [offset, clip]; valid samples of the domain map into
\* 0..254.
C11_NoDataIffOutOfDomain ==
    (call.pc = "done" /\ call.fn = "scaleNew" /\ ~call.res.panic) =>
        LET r == call.raster
            offset == ScaleDomain(r, call.params).offset
            clip == ScaleDomain(r, call.params).clip
        IN  /\ Len(call.res.Data) = Len(r.Data)
            /\ \A i \in 1..Len(r.Data) :
                  /\ call.res.Data[i] \in 0..255
                  /\ call.res.Data[i] = 255 <=>
                        (r.Data[i] = r.NoData \/ r.Data[i] < offset \/ r.Data[i] > clip)

\* C12: when the parsed band-expression set refers to a variable that is not
\* in the non-empty VariableLookup of the criteria,
\* CheckBandExpressionsComplexity returns an error.
C12_UnknownVariableRejected ==
    (/\ call.pc = "checked"
     /\ call.criteria.VariableLookup # {}
     /\ \E i \in 1..Len(call.parsed.bandExpr.VarList) :
           call.parsed.bandExpr.VarList[i] \notin call.criteria.VariableLookup) =>
        call.err # ""

\* doSelectionByRange has returned from a call on a default-grid axis
DefaultCallDone ==
    /\ call.pc = "done" /\ call.fn = "doSelectionByRange"
    /\ call.axis.Grid = "default"

\* the positions (1-based) of the timestamps of the call that equal the start
\* time or, with an end time, lie within [start, end]
WindowPositions ==
    {i \in 1..Len(call.ds.TimeStamps) :
        \/ call.ds.TimeStamps[i] = Deref(call.geoReq.StartTime)
        \/ /\ ~IsNil(call.geoReq.EndTime)
           /\ Deref(call.geoReq.StartTime) <= call.ds.TimeStamps[i]
           /\ call.ds.TimeStamps[i] <= Deref(call.geoReq.EndTime)}

\* C21: on a default-grid axis doSelectionByRange selects exactly the indices
\* of the timestamps equal to the start time or, when an end time is set,
\* within the closed interval [start, end], in ascending order, and returns
\* outRange = true exactly when it selects none; start 1000, end 2000 on the
\* timestamps 500, 1500, 2500 selects index 1 only.
C21_DefaultGridWindow ==
    DefaultCallDone =>
        /\ ~call.res.panic /\ call.res.err = ""
        /\ Len(call.res.idx) = Cardinality(WindowPositions)
        /\ {x + 1 : x \in Range(call.res.idx)} = WindowPositions
        /\ \A k \in 2..Len(call.res.idx) : call.res.idx[k - 1] < call.res.idx[k]
        /\ call.res.outRange <=> (call.res.idx = <<>>)
        /\ (/\ call.geoReq.StartTime = Some(1000) /\ call.geoReq.EndTime = Some(2000)
            /\ call.ds.TimeStamps = <<500, 1500, 2500>>) =>
              (call.res.idx = <<1>> /\ ~call.res.outRange)

\* the positions (1-based) of the timestamps of the call that equal the start
\* time or, with an end time, equal the end time or lie strictly between the
\* two
EndpointPositions ==
    {i \in 1..Len(call.ds.TimeStamps) :
        \/ call.ds.TimeStamps[i] = Deref(call.geoReq.StartTime)
        \/ /\ ~IsNil(call.geoReq.EndTime)
           /\ \/ call.ds.TimeStamps[i] = Deref(call.geoReq.EndTime)
              \/ /\ Deref(call.geoReq.StartTime) < call.ds.TimeStamps[i]
                 /\ call.ds.TimeStamps[i] < Deref(call.geoReq.EndTime)}

\* C21 (amended): on a default-grid axis doSelectionByRange selects exactly
\* the indices of the timestamps equal to the start time or, when an end time
\* is set, equal to the end time or strictly between start and end (the closed
\* interval [start, end] when start <= end), in ascending order with the
\* timestamps as values, and returns outRange = true exactly when it selects
\* none.
C21_DefaultGridEndpoints ==
    DefaultCallDone =>
        /\ ~call.res.panic /\ call.res.err = ""
        /\ Len(call.res.idx) = Cardinality(EndpointPositions)
        /\ {x + 1 : x \in Range(call.res.idx)} = EndpointPositions
        /\ \A k \in 2..Len(call.res.idx) : call.res.idx[k - 1] < call.res.idx[k]
        /\ call.res.outRange <=> (call.res.idx = <<>>)
        /\ ~call.res.outRange =>
              call.res.vals = [k \in 1..Len(call.res.idx) |->
                                  call.ds.TimeStamps[call.res.idx[k] + 1]]

\* start 1000, end 2000 on the timestamps 500, 1500, 2500: index 1 only
C21_Witness ==
    /\ DefaultCallDone
    /\ call.geoReq.StartTime = Some(1000) /\ call.geoReq.EndTime = Some(2000)
    /\ call.ds.TimeStamps = <<500, 1500, 2500>>
    /\ call.res.idx = <<1>> /\ call.res.vals = <<1500>> /\ ~call.res.outRange

\* the number of indices selected on axis i of a dataset, and the number of
\* combinations of the axes after axis i
SelCount(ds, i) == Len(ds.Axes[i].IntersectionIdx)

RECURSIVE CombsAfter(_, _)
CombsAfter(ds, i) ==
    IF i >= Len(ds.Axes) THEN 1 ELSE SelCount(ds, i + 1) * CombsAfter(ds, i + 1)

\* the p-th combination (p from 1) of the per-axis positions, the rightmost
\* axis varying fastest
NthComb(ds, p) ==
    [i \in 1..Len(ds.Axes) |-> ((p - 1) \div CombsAfter(ds, i)) % SelCount(ds, i)]

\* C22: the expansion of a task ends without a run-time fault and, for a
\* request that is not an empty-tile one, has produced for every retained
\* dataset one granule per combination of the per-axis selected indices, each
\* once, the rightmost axis varying fastest: as many granules as the product
\* of the per-axis selection counts.
C22_CartesianExpansion ==
    \A t \in TaskIds :
        /\ tasks[t].pc = "panic" => tasks[t].dss = <<>>
        /\ (/\ ~run.isEmptyTile
            /\ tasks[t].dss # <<>>
            /\ tasks[t].pc \notin {"select", "expand", "panic"}) =>
              \A k \in 1..Len(tasks[t].dss) :
                  LET ds == tasks[t].dss[k]
                      gs == SelectSeq(tasks[t].granList, LAMBDA g : g.Src.ds = k)
                  IN  IF ds.IsOutRange THEN gs = <<>>
                      ELSE /\ Len(gs) = SelCount(ds, 1) * CombsAfter(ds, 1)
                           /\ \A p \in 1..Len(gs) : gs[p].Src.cnt = NthComb(ds, p)


\* a scaleNew call that derives its domain from the data (Offset and Clip
\* both 0) of a raster with at least one sample other than no-data
AutoScaleCall ==
    /\ call.pc = "done"
    /\ call.fn = "scaleNew"
    /\ call.params.Offset = 0
    /\ call.params.Clip = 0
    /\ \E i \in 1..Len(call.raster.Data) : call.raster.Data[i] # call.raster.NoData

\* the samples of the call's raster other than no-data
ValidSamples ==
    {call.raster.Data[i] : i \in {j \in 1..Len(call.raster.Data) :
                                     call.raster.Data[j] # call.raster.NoData}}

\* C23: with Offset and Clip both 0 the derived minimum and maximum are the
\* minimum and maximum of the samples other than no-data, wherever the
\* no-data samples are, and when the two are equal the maximum is widened so
\* that clip - offset is not zero
C23_MinMaxOfValidSamples ==
    AutoScaleCall =>
        LET dom == ScaleDomain(call.raster, call.params)
            lo == CHOOSE v \in ValidSamples : \A w \in ValidSamples : v <= w
            hi == CHOOSE v \in ValidSamples : \A w \in ValidSamples : v >= w
        IN  /\ dom.offset = lo
            /\ IF lo = hi THEN dom.clip > hi ELSE dom.clip = hi
            /\ dom.clip - dom.offset # 0

\* C24: a scaleNew call with Offset and Clip both 0 on an integer raster with
\* at least one sample other than no-data returns without a run-time fault
C24_NoFault ==
    AutoScaleCall => ~call.res.panic


\* C27: for any integer start, end and step of a selector,
\* doSelectionByIndices reads no element of Params outside 0..len-1 (a read
\* outside is a run-time fault) and every entry of IntersectionIdx is in
\* that range; a start below 0 is out of range or an error.
C27_IndicesWithinParams ==
    (call.pc = "done" /\ call.fn = "doSelectionByIndices") =>
        /\ ~call.res.panic
        /\ \A k \in 1..Len(call.res.idx) :
              call.res.idx[k] \in 0..(Len(call.axis.Params) - 1)


\* Run has started the queries of a request that it sub-divides
SubDividedRun ==
    /\ run.pc = "wait"
    /\ Len(run.deq.SpatialExtent) >= 4
    /\ run.deq.QueryLimit <= 0
    /\ LET c == ClippedBBox(run.deq)
       IN  /\ c[1] <= c[3] /\ c[2] <= c[4]
           /\ Max2(c[3] - c[1], c[4] - c[2]) > run.deq.IndexResLimit * 256

\* the bounding box <<xMin, yMin, xMax, yMax>> of the polygon of a query
BBoxOfWkt(wkt) == <<wkt[2][1], wkt[2][2], wkt[4][1], wkt[4][2]>>

\* the boxes of the sub-tile queries started
SubBoxes == {BBoxOfWkt(tasks[t].url.WKT) : t \in {u \in TaskIds : tasks[u].kind = "sub"}}

\* the box <<x1, y1, x2, y2>> lies in a box of S
InSomeBox(x1, y1, x2, y2, S) ==
    \E b \in S : b[1] <= x1 /\ x2 <= b[3] /\ b[2] <= y1 /\ y2 <= b[4]

\* the boxes of S leave no gap in c: every cell of the grid drawn by the
\* edges of the boxes and of c that lies in c lies in a box
CoversBox(S, c) ==
    LET xs == {b[1] : b \in S} \cup {b[3] : b \in S} \cup {c[1], c[3]}
        ys == {b[2] : b \in S} \cup {b[4] : b \in S} \cup {c[2], c[4]}
    IN  \A x1, x2 \in xs : \A y1, y2 \in ys :
            (/\ c[1] <= x1 /\ x1 <= x2 /\ x2 <= c[3]
             /\ c[2] <= y1 /\ y1 <= y2 /\ y2 <= c[4]
             /\ ~\E x \in xs : x1 < x /\ x < x2
             /\ ~\E y \in ys : y1 < y /\ y < y2) => InSomeBox(x1, y1, x2, y2, S)

\* C25: when a request is sub-divided (spatial extent configured,
\* QueryLimit <= 0, resolution above IndexResLimit) the sub-tile boxes
\* queried cover the clipped bounding box without a gap, each lies inside
\* the clipped box, one query is started per sub-tile and the un-divided
\* main query is not started.
C25_SubTilesCoverClippedBBox ==
    SubDividedRun =>
        LET c == ClippedBBox(run.deq)
            subs == {t \in TaskIds : tasks[t].kind = "sub"}
        IN  /\ subs # {}
            /\ CoversBox(SubBoxes, c)
            /\ \A b \in SubBoxes : c[1] <= b[1] /\ b[3] <= c[3] /\ c[2] <= b[2] /\ b[4] <= c[4]
            /\ \A t, u \in subs : tasks[t].url.WKT = tasks[u].url.WKT => t = u
            /\ \A t \in TaskIds : tasks[t].kind # "main"

\* a request clipped to <<256, 0, 1024, 512>> and sub-divided in tiles of
\* 100 by 128 cells: three columns, the last one narrower, by two rows
C25_Witness ==
    /\ SubDividedRun
    /\ ClippedBBox(run.deq) = <<256, 0, 1024, 512>>
    /\ Cardinality(SubBoxes) = 6
    /\ <<856, 256, 1024, 512>> \in SubBoxes

\* C28: when a request has a mask whose collection or namespace differs from
\* the main query, the polygon of the mask query is the request's own
\* bounding box, also when the main query was sub-divided.
C28_MaskQueryCoversRequestBBox ==
    run.pc = "wait" =>
        \A t \in TaskIds :
            tasks[t].kind = "mask" => tasks[t].url.WKT = BBox2WKT(run.deq.BBox)


\* C26: in every interleaving no URLIndexGet task sends on p.Out after Run
\* has closed it: a value is put on p.Out only while it is open, Run closes
\* p.Out only when every task it started has finished, and it waits for the
\* tasks of a request before it receives the next request.
C26_NoSendAfterClose ==
    [][/\ Len(Out') > Len(Out) => outClosed = 0
       /\ outClosed' > outClosed => \A t \in TaskIds : tasks[t].pc = "done"
       /\ run'.pc = "recv" => \A t \in TaskIds : tasks[t].pc = "done"]_vars

\* C26 witness: Run has closed p.Out after the tasks of a request have put
\* two dataset granules on it, which the consumer has not taken yet.
C26_Witness ==
    /\ outClosed = 1
    /\ run.pc = "done"
    /\ Len(Out) = 2
    /\ Out[1].Path # "NULL" /\ Out[2].Path # "NULL"


\* the call of processFusionTimestamps has ended
FusionCallDone == call.pc = "done" /\ call.fn = "processFusionTimestamps"

\* C29: processFusionTimestamps terminates for every config map, also when
\* blended layers without dates name each other or themselves as input
\* layers; when it returns without error for a layer with input layers,
\* the layer's Dates, if any, have no date twice, are in ascending order of
\* time, and EffectiveStartDate / EffectiveEndDate are the first and last.
C29_FusionTerminatesSorted ==
    FusionCallDone =>
        /\ ~call.res.overflow
        /\ (/\ ~call.res.err
            /\ Len(FusionInputLayers(call.layers[call.i])) > 0
            /\ Len(call.res.layers[call.i].Dates) > 0) =>
              LET l == call.res.layers[call.i]
              IN  /\ \A a, b \in 1..Len(l.Dates) : a # b => l.Dates[a] # l.Dates[b]
                  /\ \A a \in 2..Len(l.Dates) :
                        ParseDate(l.Dates[a - 1]) <= ParseDate(l.Dates[a])
                  /\ l.EffectiveStartDate = l.Dates[1]
                  /\ l.EffectiveEndDate = l.Dates[Len(l.Dates)]


\* C30: no variable is both exposed and denied: an expression set within
\* MaxVariables, MaxTokens and MaxExpressions whose variables are all in the
\* VariableLookup made by addBandMathVariableConstraints, and whose other
\* tokens are not refused by the token ACL, is accepted by
\* CheckBandExpressionsComplexity.
C30_ExposedVariableAccepted ==
    LET bandExpr == call.parsed.bandExpr
        toks == AllTokens(bandExpr.Expressions)
    IN  (/\ call.pc = "checked"
         /\ Len(bandExpr.Expressions) <= call.criteria.MaxExpressions
         /\ Len(bandExpr.VarList) <= call.criteria.MaxVariables
         /\ Len(toks) <= call.criteria.MaxTokens
         /\ \E i \in 1..Len(toks) : toks[i].Kind = "VARIABLE"
         /\ \A i \in 1..Len(toks) :
               IF toks[i].Kind = "VARIABLE"
               THEN toks[i].Value \in call.criteria.VariableLookup
               ELSE ~IsTokenDenied(call.criteria.TokenACL, toks[i])) =>
            call.err = ""

====
